---------------------------- MODULE Spec2Model ----------------------------
(***************************************************************************)
(* Long-running agent framework: the feature backlog (FeatureManager), the *)
(* agent state store (StateManager), the test ledger (TestManager) and the *)
(* four-step workflow controller (WorkflowEngine).                         *)
(*                                                                         *)
(* Each component has its own specification over the shared variables:     *)
(*   SpecSelect  selection of the next feature (a pure function of the     *)
(*               stored collection)                                        *)
(*   SpecFM      feature backlog mutations                                 *)
(*   SpecTM      test ledger and its evidence files                        *)
(*   SpecSM      agent_state.json reads and writes                         *)
(*   SpecSMFields  agent_state.json writes of every field                  *)
(*   SpecBM      the human backlog (BacklogManager)                        *)
(*   SpecCO      the coordinator's directives over journals and backlogs   *)
(*   SpecSS      session records under the manager and the orchestrator    *)
(*   SpecTP      executeTestPhase, check by check                          *)
(*   SpecFS      feature_list.json under two FeatureManager instances      *)
(*   SpecSaveLoad  saveFeatureList and loadFeatureList across instances    *)
(*   SpecWF      executeWorkflow, one action per awaited step              *)
(*   SpecWFLive  SpecWF with every awaited step eventually returning       *)
(*   SpecBMComments  comment threads of the human backlog                  *)
(*   SpecPhase   determineProjectPhase over journals and feature files     *)
(*   SpecComplete  completeSession over session results                    *)
(*   SpecLedgerReads  the test ledger's queries over any tests.json        *)
(***************************************************************************)
EXTENDS Integers, Sequences, FiniteSets, TLC

VARIABLES
  features,   \* feature_list.json / FeatureManager.featureList.features
  counts,     \* feature_list.json totalFeatures / completedFeatures
  fmLast      \* the last FeatureManager call and what it returned

VARIABLES
  wfCap,      \* the maxIterations argument the WorkflowEngine was constructed with
  ctx,        \* WorkflowEngine.context
  pc,         \* where executeWorkflow stands: idle, step1..step4, done
  steps,      \* executeWorkflow's steps: StepResult[] (result.steps once done)
  iterations, \* executeWorkflow's local iterations
  allPassed,  \* executeWorkflow's local allPassed
  result      \* the WorkflowResult returned, NoResult before

VARIABLES
  testsFile,  \* tests.json: whether it is there, and the TestSuite.tests in it
  tmLast      \* the last TestManager call and what it returned

fmVars == <<features, counts, fmLast>>
VARIABLES
  stateFile,  \* agent_state.json: whether it is there and parses, and its fields
  smLast      \* the last StateManager call and what it returned

VARIABLES
  humanBacklog, \* human_backlog.json: the BacklogItem list in it
  bmLast        \* the last BacklogManager call and what it returned

VARIABLES
  progressLog,  \* claude-progress.txt: the entries recorded, oldest first
  ptLast        \* the entry handed to the last recordProgress call

VARIABLES
  taskQueue,  \* AgentCoordinator.taskQueue
  coLast      \* the last AgentCoordinator call and what it returned

VARIABLES
  sessions,       \* .agent-sessions: one record per session file
  currentSession, \* SessionManager.currentSession (its id, or Null)
  ssLast          \* the last SessionManager / orchestrator call

VARIABLES
  tpPc,           \* where an executeTestPhase call stands
  tpRuns,         \* how often the call has run each check
  tpChecks,       \* lintResult, buildResult, browserResult of the call
  tpResult        \* the TestPhaseResult the last call returned

tpVars == <<tpPc, tpRuns, tpChecks, tpResult>>
VARIABLES
  featureFile,    \* feature_list.json: missing, partly written, or JSON text
  fmCache,        \* this.featureList of each FeatureManager instance
  fsWriting,      \* the writeFile each instance has under way
  fsLast          \* the last call made through an instance

fsVars == <<featureFile, fmCache, fsWriting, fsLast>>
tmVars == <<testsFile, tmLast>>
bmVars == <<humanBacklog, bmLast>>
ptVars == <<progressLog, ptLast>>
coVars == <<taskQueue, coLast>>
ssVars == <<sessions, currentSession, ssLast>>
smVars == <<stateFile, smLast>>
wfVars == <<wfCap, ctx, pc, steps, iterations, allPassed, result>>
vars == <<fmVars, wfVars, tmVars, smVars, bmVars, ptVars, coVars, ssVars,
         tpVars,
         fsVars>>

(***************************************************************************)
(* Bounds of the model.                                                    *)
(***************************************************************************)
MaxFeatures == 2
MaxSteps == 2
MaxCapArg == 4
MaxTests == 2
MaxItems == 2
MaxComments == 1
MaxQueue == 3
MaxLog == 1
MaxSessions == 2

(***************************************************************************)
(* Program constants.                                                      *)
(***************************************************************************)
PriorityHigh == 10
PriorityMedium == 50
PriorityLow == 100
ErrorHandlingOffset == 10
DefaultMaxIterations == 3
\* entries.slice(-5) and totalSessions > 5
RecentWindow == 5
RefinementThreshold == 5

\* "return null" of the queries: no feature id is 0
Null == 0

Priorities == {PriorityHigh, PriorityMedium, PriorityLow}

FeatureIds == 1..MaxFeatures

\* Feature.verificationNotes / Feature.completedAt when never assigned
NoNotes == <<"undefined">>
NoTime == "undefined"
Stamped == "date"

(***************************************************************************)
(* interface Feature.  The feature at position i of a collection has id i, *)
(* so ids are unique; an id above the collection's length names no         *)
(* feature.                                                                *)
(***************************************************************************)
Feature(i, prio, deps, passes) ==
  [id |-> i, priority |-> prio, dependencies |-> deps, passes |-> passes,
   completedAt |-> IF passes THEN Stamped ELSE NoTime,
   verificationNotes |-> IF passes THEN <<"PASS">> ELSE NoNotes]

FeatureChoices(i) ==
  {Feature(i, p, d, b) : p \in Priorities, d \in SUBSET FeatureIds, b \in BOOLEAN}

FeatureListsOfLen(n) ==
  {l \in [1..n -> UNION {FeatureChoices(i) : i \in 1..n}] :
      \A i \in 1..n : l[i].id = i}

FeatureLists == UNION {FeatureListsOfLen(n) : n \in 0..MaxFeatures}

(***************************************************************************)
(* Array.prototype.sort((a, b) => a.priority - b.priority): a stable sort, *)
(* computed as an insertion sort that places an element after every        *)
(* element the comparator does not order after it.                         *)
(***************************************************************************)
\* the comparator with its operands swapped: a descending sort
ComparePriorityDescending(a, b) == b.priority - a.priority

ComparePriority(a, b) == a.priority - b.priority

RECURSIVE InsertSorted(_, _)
InsertSorted(sorted, x) ==
  IF sorted = <<>> THEN <<x>>
  ELSE IF ComparePriority(Head(sorted), x) <= 0
       THEN <<Head(sorted)>> \o InsertSorted(Tail(sorted), x)
       ELSE <<x>> \o sorted

RECURSIVE SortByPriority(_)
SortByPriority(s) ==
  IF s = <<>> THEN <<>>
  ELSE InsertSorted(SortByPriority(SubSeq(s, 1, Len(s) - 1)), s[Len(s)])

(***************************************************************************)
(* list.features.find(f => f.id === depId): the first match, or Null       *)
(***************************************************************************)
FindFeature(list, fid) ==
  IF \E i \in 1..Len(list) : list[i].id = fid
  THEN list[CHOOSE i \in 1..Len(list) :
              /\ list[i].id = fid
              /\ \A j \in 1..(i - 1) : list[j].id # fid]
  ELSE Null

HasFeature(list, fid) == \E i \in 1..Len(list) : list[i].id = fid

(***************************************************************************)
(* FeatureManager.areDependenciesMet                                       *)
(***************************************************************************)
areDependenciesMet(list, feature) ==
  \A depId \in feature.dependencies :
     /\ HasFeature(list, depId)
     /\ FindFeature(list, depId).passes

(***************************************************************************)
(* FeatureManager.getNextIncompleteFeature: the id returned, or Null.      *)
(* list.features.filter(f => !f.passes) is SelectSeq.                      *)
(***************************************************************************)
IsIncomplete(f) == ~f.passes

RECURSIVE FirstWithDependenciesMet(_, _)
FirstWithDependenciesMet(list, candidates) ==
  IF candidates = <<>> THEN Null
  ELSE IF areDependenciesMet(list, Head(candidates)) THEN Head(candidates).id
       ELSE FirstWithDependenciesMet(list, Tail(candidates))

\* the query without its last line: nothing is returned when every
\* incomplete feature is blocked
getNextIncompleteFeatureNoFallback(list) ==
  FirstWithDependenciesMet(list, SortByPriority(SelectSeq(list, IsIncomplete)))

getNextIncompleteFeature(list) ==
  LET incompleteFeatures == SortByPriority(SelectSeq(list, IsIncomplete))
  IN  IF Len(incompleteFeatures) = 0 THEN Null
      ELSE IF FirstWithDependenciesMet(list, incompleteFeatures) # Null
           THEN FirstWithDependenciesMet(list, incompleteFeatures)
           ELSE incompleteFeatures[1].id

(***************************************************************************)
(* FeatureManager.saveFeatureList: the counts written beside the records   *)
(***************************************************************************)
CountPassing(list) == Cardinality({i \in 1..Len(list) : list[i].passes})

savedCounts(list) ==
  [totalFeatures |-> Len(list), completedFeatures |-> CountPassing(list)]

(***************************************************************************)
(* What a FeatureManager call was given and what it did: op, the feature   *)
(* id and verification steps passed in (each step its "passed" flag), the  *)
(* value returned, and whether it returned or threw.                       *)
(***************************************************************************)
NoCall == [op |-> "none", id |-> Null, steps |-> <<>>, ret |-> Null,
           outcome |-> "none"]

(***************************************************************************)
(* TestManager: tests.json and the evidence files on disk.                 *)
(*                                                                         *)
(* The files a caller can name as evidence, each path named after what is  *)
(* on disk there: nothing, a file without failure markers, a file that     *)
(* contains ERROR, a file that contains FAIL.                              *)
(***************************************************************************)
EvidencePaths == {"missing", "clean", "ERROR", "FAIL"}

\* fs.existsSync(path)
existsSync(path) == path # "missing"

\* fs.readFileSync(path, 'utf-8')
readFileSync(path) == path

\* only the ERROR marker is looked for
consoleShowsErrorOnly(consoleContent) == consoleContent = "ERROR"

\* consoleContent.includes('ERROR') || consoleContent.includes('FAIL')
consoleShowsErrors(consoleContent) == consoleContent \in {"ERROR", "FAIL"}

Unset == "undefined"

\* TestCase as addTest creates it
NewTest(id) ==
  [id |-> id, passes |-> FALSE, verified_at |-> Unset,
   screenshot_path |-> Unset, console_log_path |-> Unset, notes |-> Unset]

\* TestManager.initialize: the empty suite
EmptySuite == [state |-> "ok", tests |-> <<>>]

TestLedgerAbsent ==
  /\ testsFile = [state |-> "missing", tests |-> <<>>]
  /\ tmLast = [op |-> "none", testId |-> Null, screenshot_path |-> Unset,
               console_log_path |-> Unset, ret |-> FALSE]

\* TestManager.loadSuite: a missing file is replaced by the empty suite
loadSuite(file) == IF file.state = "ok" THEN file ELSE EmptySuite

HasTest(suite, testId) == \E i \in 1..Len(suite.tests) : suite.tests[i].id = testId

TestPosition(suite, testId) ==
  CHOOSE i \in 1..Len(suite.tests) :
     /\ suite.tests[i].id = testId
     /\ \A j \in 1..(i - 1) : suite.tests[j].id # testId

(***************************************************************************)
(* TestManager.addTest: ids are generated fresh                            *)
(***************************************************************************)
AddTest ==
  /\ LET suite == loadSuite(testsFile)
     IN  /\ Len(suite.tests) < MaxTests
         /\ testsFile' = [suite EXCEPT
                            !.tests = Append(@, NewTest(Len(suite.tests) + 1))]
         /\ tmLast' = [op |-> "add", testId |-> Len(suite.tests) + 1,
                       screenshot_path |-> Unset, console_log_path |-> Unset,
                       ret |-> TRUE]
  /\ UNCHANGED <<fmVars, wfVars, smVars, bmVars, ptVars,
              coVars, ssVars, tpVars, fsVars>>

(***************************************************************************)
(* TestManager.markTestPassing(testId, evidence): the file written (the    *)
(* file loadSuite left when nothing is saved) and the value returned       *)
(***************************************************************************)
markTestPassing(file, testId, screenshot_path, console_log_path) ==
  LET suite == loadSuite(file)
  IN  IF ~HasTest(suite, testId) THEN [ret |-> FALSE, file |-> suite]
      ELSE IF ~existsSync(screenshot_path) THEN [ret |-> FALSE, file |-> suite]
      ELSE IF ~existsSync(console_log_path) THEN [ret |-> FALSE, file |-> suite]
      ELSE IF consoleShowsErrors(readFileSync(console_log_path))
           THEN [ret |-> FALSE, file |-> suite]
      ELSE [ret |-> TRUE,
            file |-> [suite EXCEPT !.tests[TestPosition(suite, testId)] =
                        [@ EXCEPT !.passes = TRUE,
                                  !.verified_at = Stamped,
                                  !.screenshot_path = screenshot_path,
                                  !.console_log_path = console_log_path,
                                  !.notes = "evidence"]]]

MarkTestPassing(testId, screenshot_path, console_log_path) ==
  LET r == markTestPassing(testsFile, testId, screenshot_path, console_log_path)
  IN  /\ testsFile' = r.file
      /\ tmLast' = [op |-> "markPassing", testId |-> testId,
                    screenshot_path |-> screenshot_path,
                    console_log_path |-> console_log_path, ret |-> r.ret]
      /\ UNCHANGED <<fmVars, wfVars, smVars, bmVars, ptVars,
              coVars, ssVars, tpVars, fsVars>>

(***************************************************************************)
(* TestManager.markTestFailing(testId, reason)                             *)
(***************************************************************************)
markTestFailing(file, testId) ==
  LET suite == loadSuite(file)
  IN  IF ~HasTest(suite, testId) THEN [ret |-> FALSE, file |-> suite]
      ELSE [ret |-> TRUE,
            file |-> [suite EXCEPT !.tests[TestPosition(suite, testId)] =
                        [@ EXCEPT !.passes = FALSE,
                                  !.verified_at = Unset,
                                  !.notes = "Marked as failing"]]]

MarkTestFailing(testId) ==
  LET r == markTestFailing(testsFile, testId)
  IN  /\ testsFile' = r.file
      /\ tmLast' = [op |-> "markFailing", testId |-> testId,
                    screenshot_path |-> Unset, console_log_path |-> Unset,
                    ret |-> r.ret]
      /\ UNCHANGED <<fmVars, wfVars, smVars, bmVars, ptVars,
              coVars, ssVars, tpVars, fsVars>>

(***************************************************************************)
(* StateManager: agent_state.json.                                         *)
(*                                                                         *)
(* A field of the file holds one of the five valid states, a string that   *)
(* is none of them, the empty string, or is not there at all (undefined).  *)
(* The last two are falsy in JavaScript.                                   *)
(***************************************************************************)
VALID_STATES == {"continuous", "run_once", "run_cleanup", "pause", "terminated"}

Undefined == "undefined"

StoredStates == VALID_STATES \cup {"bogus", "", Undefined}

Setters == {"agent", "human", "system"}

\* !value, for a field of the parsed object
IsFalsy(value) == value \in {"", Undefined}

\* interface AgentStateData, and whether the file is there and parses.
\* missing: no file.  unparsable: JSON.parse throws, or yields null, whose
\* property access throws.  ok: an object with these fields, Undefined for
\* a key the object does not have.
AgentStateData(status, desired, current, by, noteText, phaseName, issue,
               restarts, commit) ==
  [status |-> status, desired_state |-> desired, current_state |-> current,
   setBy |-> by, note |-> noteText, phase |-> phaseName,
   current_issue |-> issue, restart_count |-> restarts, last_commit |-> commit]

\* a file that holds the two states and the setter, and nothing else
StatesOnly(status, desired, current, by) ==
  AgentStateData(status, desired, current, by, Undefined, Undefined,
                 Undefined, Undefined, Undefined)

StateFileContents ==
  {StatesOnly("missing", Undefined, Undefined, Undefined),
   StatesOnly("unparsable", Undefined, Undefined, Undefined)}
  \cup {StatesOnly("ok", d, c, b) :
          d \in StoredStates, c \in StoredStates, b \in Setters}

\* the partial update handed to writeState: a field is Omitted when the
\* caller's object has no such key
Omitted == "omitted"

Updates(desired, current, by, noteText, phaseName, issue, restarts, commit) ==
  [desired_state |-> desired, current_state |-> current, setBy |-> by,
   note |-> noteText, phase |-> phaseName, current_issue |-> issue,
   restart_count |-> restarts, last_commit |-> commit]

NoUpdates ==
  Updates(Omitted, Omitted, Omitted, Omitted, Omitted, Omitted, Omitted, Omitted)

StateFileAbsent ==
  /\ stateFile = StatesOnly("missing", Undefined, Undefined, Undefined)
  /\ smLast = [op |-> "none", desired_state |-> Undefined,
               current_state |-> Undefined, ret |-> FALSE,
               updates |-> NoUpdates]

\* the record readState returns for a missing, unreadable or malformed file
defaultPauseState(noteText) ==
  [desired_state |-> "pause", current_state |-> "pause", setBy |-> "agent",
   note |-> noteText, phase |-> Undefined, current_issue |-> Undefined,
   restart_count |-> Undefined, last_commit |-> Undefined]

\* the validation left out: the stored value is returned as it is
keepStoredState(value) == value

\* if (!VALID_STATES.has(state.x)) state.x = 'pause'
coerceState(value) == IF value \in VALID_STATES THEN value ELSE "pause"

(***************************************************************************)
(* StateManager.readState                                                  *)
(***************************************************************************)
readState(file) ==
  IF file.status = "missing"
  THEN defaultPauseState("Default state (file did not exist)")
  ELSE IF file.status = "unparsable" THEN defaultPauseState("Read error")
  ELSE IF IsFalsy(file.desired_state) \/ IsFalsy(file.current_state)
       THEN defaultPauseState("Malformed state file")
  ELSE [desired_state |-> coerceState(file.desired_state),
        current_state |-> coerceState(file.current_state),
        setBy |-> file.setBy, note |-> file.note, phase |-> file.phase,
        current_issue |-> file.current_issue,
        restart_count |-> file.restart_count,
        last_commit |-> file.last_commit]

ReadState ==
  /\ smLast' = [op |-> "read",
                desired_state |-> readState(stateFile).desired_state,
                current_state |-> readState(stateFile).current_state,
                ret |-> TRUE, updates |-> NoUpdates]
  /\ UNCHANGED <<stateFile, fmVars, wfVars, tmVars, bmVars, ptVars,
              coVars, ssVars, tpVars, fsVars>>

(***************************************************************************)
(* StateManager.shouldContinue / shouldPause                               *)
(***************************************************************************)
\* the test made on current_state instead of desired_state
shouldContinueByCurrent(file) == readState(file).current_state = "continuous"

shouldContinue(file) == readState(file).desired_state = "continuous"

shouldPause(file) == readState(file).desired_state \in {"pause", "terminated"}

ShouldContinue ==
  /\ smLast' = [op |-> "shouldContinue", desired_state |-> Undefined,
                current_state |-> Undefined, ret |-> shouldContinue(stateFile),
                updates |-> NoUpdates]
  /\ UNCHANGED <<stateFile, fmVars, wfVars, tmVars, bmVars, ptVars,
              coVars, ssVars, tpVars, fsVars>>

ShouldPause ==
  /\ smLast' = [op |-> "shouldPause", desired_state |-> Undefined,
                current_state |-> Undefined, ret |-> shouldPause(stateFile),
                updates |-> NoUpdates]
  /\ UNCHANGED <<stateFile, fmVars, wfVars, tmVars, bmVars, ptVars,
              coVars, ssVars, tpVars, fsVars>>

(***************************************************************************)
(* StateManager.writeState(updates): { ...currentState, ...updates,        *)
(* timestamp, setBy: updates.setBy || 'agent' }, then the two enum checks. *)
(* JSON.stringify leaves out a key whose value is undefined.               *)
(***************************************************************************)
\* the new state built from the updates alone: a key the update does not
\* have is not taken from the record read
spreadUpdatesOnly(currentValue, supplied) ==
  IF supplied = Omitted THEN Undefined ELSE supplied

\* { ...currentState, ...updates }, one key of it
spread(currentValue, supplied) ==
  IF supplied = Omitted THEN currentValue ELSE supplied

\* updates.x && !VALID_STATES.has(updates.x)
IsInvalidUpdate(supplied) ==
  supplied # Omitted /\ ~IsFalsy(supplied) /\ supplied \notin VALID_STATES

writeState(file, updates) ==
  LET currentState == readState(file)
  IN  [status |-> "ok",
       desired_state |->
         IF IsInvalidUpdate(updates.desired_state)
         THEN currentState.desired_state
         ELSE spread(currentState.desired_state, updates.desired_state),
       current_state |->
         IF IsInvalidUpdate(updates.current_state)
         THEN currentState.current_state
         ELSE spread(currentState.current_state, updates.current_state),
       setBy |-> IF updates.setBy = Omitted \/ IsFalsy(updates.setBy)
                 THEN "agent" ELSE updates.setBy,
       note |-> spread(currentState.note, updates.note),
       phase |-> spread(currentState.phase, updates.phase),
       current_issue |-> spread(currentState.current_issue, updates.current_issue),
       restart_count |-> spread(currentState.restart_count, updates.restart_count),
       last_commit |-> spread(currentState.last_commit, updates.last_commit)]

WriteState(updates) ==
  /\ stateFile' = writeState(stateFile, updates)
  /\ smLast' = [op |-> "write", desired_state |-> updates.desired_state,
                current_state |-> updates.current_state, ret |-> TRUE,
                updates |-> updates]
  /\ UNCHANGED <<fmVars, wfVars, tmVars, bmVars, ptVars,
              coVars, ssVars, tpVars, fsVars>>

\* writeState({desired_state, current_state, setBy}): the two states and
\* the setter, any of them left out
StateUpdates ==
  {Updates(desired, current, by, Omitted, Omitted, Omitted, Omitted, Omitted) :
     desired \in StoredStates \cup {Omitted},
     current \in StoredStates \cup {Omitted},
     by \in Setters \cup {Omitted}}

\* note || '<the method's default text>': always a text
NoteText == "note text"

\* updateCurrentState, pause, startContinuous, requestRunOnce,
\* requestCleanup, terminate: the updates each hands to writeState
ConvenienceUpdate(desired, current) ==
  Updates(desired, current, Omitted, NoteText, Omitted, Omitted, Omitted, Omitted)

requestRunOnce == ConvenienceUpdate("run_once", Omitted)

requestCleanup == ConvenienceUpdate("run_cleanup", Omitted)

ConvenienceUpdates ==
  {ConvenienceUpdate(Omitted, c) : c \in VALID_STATES}
  \cup {ConvenienceUpdate("pause", "pause"),
        ConvenienceUpdate("continuous", "continuous"),
        requestRunOnce,
        requestCleanup,
        ConvenienceUpdate("terminated", "terminated")}

ConvenienceTransition(u) ==
  /\ u \in ConvenienceUpdates
  /\ WriteState(u)

(***************************************************************************)
(* The file as somebody else left it: a human or another tool edits        *)
(* agent_state.json, removes it or leaves it half written.                 *)
(***************************************************************************)
ExternalEdit(contents) ==
  /\ contents \in StateFileContents
  /\ stateFile' = contents
  /\ smLast' = [op |-> "edit", desired_state |-> Undefined,
                current_state |-> Undefined, ret |-> TRUE,
                updates |-> NoUpdates]
  /\ UNCHANGED <<fmVars, wfVars, tmVars, bmVars, ptVars,
              coVars, ssVars, tpVars, fsVars>>

\* one of the two state fields is changed in place, the other fields of
\* the file stay
ExternalFieldEdit(field, value) ==
  /\ stateFile.status = "ok"
  /\ field \in {"desired_state", "current_state"}
  /\ value \in StoredStates
  /\ stateFile' = IF field = "desired_state"
                  THEN [stateFile EXCEPT !.desired_state = value]
                  ELSE [stateFile EXCEPT !.current_state = value]
  /\ smLast' = [op |-> "edit", desired_state |-> Undefined,
                current_state |-> Undefined, ret |-> TRUE,
                updates |-> NoUpdates]
  /\ UNCHANGED <<fmVars, wfVars, tmVars, bmVars, ptVars,
              coVars, ssVars, tpVars, fsVars>>

(***************************************************************************)
(* BacklogManager: human_backlog.json, a bare list of BacklogItem.  A      *)
(* missing or unparsable file loads as the empty list.  An item is its     *)
(* id, priority, status, completed flag, completion date and its comments  *)
(* (each comment its author and text).                                     *)
(***************************************************************************)
\* const priorityOrder: BacklogPriority[]
priorityOrder == <<"critical", "high", "medium", "low">>

BacklogPriorities == {priorityOrder[k] : k \in 1..Len(priorityOrder)}

BacklogStatuses == {"backlog", "in_progress", "blocked", "done"}

NoBacklogCall == [op |-> "none", id |-> Null, ret |-> Null, ok |-> FALSE]

BacklogAbsent ==
  /\ humanBacklog = <<>>
  /\ bmLast = NoBacklogCall

\* the item addItem builds; ids are generated from the clock and taken to
\* be fresh
NewItem(id, priority) ==
  [id |-> id, priority |-> priority, status |-> "backlog",
   completed |-> FALSE, completedDate |-> NoTime, comments |-> <<>>]

HasItem(backlog, id) == \E i \in 1..Len(backlog) : backlog[i].id = id

\* backlog.find(i => i.id === id): the position of the first match
ItemPosition(backlog, id) ==
  CHOOSE i \in 1..Len(backlog) :
     /\ backlog[i].id = id
     /\ \A j \in 1..(i - 1) : backlog[j].id # id

(***************************************************************************)
(* BacklogManager.addItem                                                  *)
(***************************************************************************)
AddItem(priority) ==
  /\ Len(humanBacklog) < MaxItems
  /\ priority \in BacklogPriorities
  /\ humanBacklog' = Append(humanBacklog, NewItem(Len(humanBacklog) + 1, priority))
  /\ bmLast' = [op |-> "addItem", id |-> Len(humanBacklog) + 1, ret |-> Null,
                ok |-> TRUE]
  /\ UNCHANGED <<fmVars, wfVars, tmVars, smVars, ptVars, coVars, ssVars, tpVars,
              fsVars>>

(***************************************************************************)
(* BacklogManager.updateStatus(id, status), and markComplete and           *)
(* markInProgress, which call it                                           *)
(***************************************************************************)
updateStatus(backlog, id, status) ==
  IF ~HasItem(backlog, id) THEN backlog
  ELSE [backlog EXCEPT ![ItemPosition(backlog, id)] =
          IF status = "done"
          THEN [@ EXCEPT !.status = status, !.completed = TRUE,
                         !.completedDate = Stamped]
          ELSE [@ EXCEPT !.status = status]]

UpdateStatusAs(op, id, status) ==
  /\ humanBacklog' = updateStatus(humanBacklog, id, status)
  /\ bmLast' = [op |-> op, id |-> id, ret |-> Null,
                ok |-> HasItem(humanBacklog, id)]
  /\ UNCHANGED <<fmVars, wfVars, tmVars, smVars, ptVars, coVars, ssVars, tpVars,
              fsVars>>

UpdateStatus(id, status) ==
  /\ status \in BacklogStatuses
  /\ UpdateStatusAs("updateStatus", id, status)

MarkComplete(id) == UpdateStatusAs("markComplete", id, "done")

MarkInProgress(id) == UpdateStatusAs("markInProgress", id, "in_progress")

(***************************************************************************)
(* BacklogManager.markBlocked(id, reason) and addComment(id, author, text) *)
(***************************************************************************)
Comment(author, text) == [author |-> author, text |-> text]

\* the status set and no comment pushed
markBlockedSilently(backlog, id) ==
  IF ~HasItem(backlog, id) THEN backlog
  ELSE [backlog EXCEPT ![ItemPosition(backlog, id)] =
          [@ EXCEPT !.status = "blocked"]]

markBlocked(backlog, id) ==
  IF ~HasItem(backlog, id) THEN backlog
  ELSE [backlog EXCEPT ![ItemPosition(backlog, id)] =
          [@ EXCEPT !.status = "blocked",
                    !.comments = Append(@, Comment("agent", "Blocked: reason"))]]

MarkBlocked(id) ==
  /\ HasItem(humanBacklog, id) =>
        Len(humanBacklog[ItemPosition(humanBacklog, id)].comments) < MaxComments
  /\ humanBacklog' = markBlocked(humanBacklog, id)
  /\ bmLast' = [op |-> "markBlocked", id |-> id, ret |-> Null,
                ok |-> HasItem(humanBacklog, id)]
  /\ UNCHANGED <<fmVars, wfVars, tmVars, smVars, ptVars, coVars, ssVars, tpVars,
              fsVars>>

addComment(backlog, id, author) ==
  IF ~HasItem(backlog, id) THEN backlog
  ELSE [backlog EXCEPT ![ItemPosition(backlog, id)] =
          [@ EXCEPT !.comments = Append(@, Comment(author, "text"))]]

AddComment(id, author) ==
  /\ author \in {"agent", "human"}
  /\ HasItem(humanBacklog, id) =>
        Len(humanBacklog[ItemPosition(humanBacklog, id)].comments) < MaxComments
  /\ humanBacklog' = addComment(humanBacklog, id, author)
  /\ bmLast' = [op |-> "addComment", id |-> id, ret |-> Null,
                ok |-> HasItem(humanBacklog, id)]
  /\ UNCHANGED <<fmVars, wfVars, tmVars, smVars, ptVars, coVars, ssVars, tpVars,
              fsVars>>

(***************************************************************************)
(* BacklogManager.getNextItem: the id of the item returned, or Null        *)
(***************************************************************************)
IsNotCompleted(item) == ~item.completed

\* one of the two priority loops: the first item of the first priority
\* level that has a match, among the backlog-status items only or among
\* all of them
RECURSIVE FindByPriority(_, _, _)
FindByPriority(incomplete, order, backlogOnly) ==
  IF order = <<>> THEN Null
  ELSE LET matches ==
             SelectSeq(incomplete,
                       LAMBDA i : /\ i.priority = Head(order)
                                  /\ backlogOnly => i.status = "backlog")
       IN  IF matches # <<>> THEN Head(matches).id
           ELSE FindByPriority(incomplete, Tail(order), backlogOnly)

getNextItem(backlog) ==
  LET incomplete == SelectSeq(backlog, IsNotCompleted)
      inProgress == SelectSeq(incomplete, LAMBDA i : i.status = "in_progress")
  IN  IF Len(incomplete) = 0 THEN Null
      ELSE IF inProgress # <<>> THEN Head(inProgress).id
      ELSE IF FindByPriority(incomplete, priorityOrder, TRUE) # Null
           THEN FindByPriority(incomplete, priorityOrder, TRUE)
      ELSE IF FindByPriority(incomplete, priorityOrder, FALSE) # Null
           THEN FindByPriority(incomplete, priorityOrder, FALSE)
      ELSE incomplete[1].id

GetNextItem ==
  /\ bmLast' = [op |-> "getNextItem", id |-> Null,
                ret |-> getNextItem(humanBacklog), ok |-> TRUE]
  /\ UNCHANGED <<humanBacklog, fmVars, wfVars, tmVars, smVars, ptVars, coVars, ssVars,
              tpVars, fsVars>>

(***************************************************************************)
(* The parked values of the progress journal's readers and writers: the    *)
(* coordinator's task queue and the session store.                         *)
(***************************************************************************)
NoCoordinatorCall ==
  [op |-> "none", agentType |-> "none", tasks |-> <<>>, promptFeature |-> Null,
   outcome |-> "none", phase |-> "none"]

CoordinatorIdle ==
  /\ taskQueue = <<>>
  /\ coLast = NoCoordinatorCall

\* TestPhase: no executeTestPhase call made yet
Pending(type) == [type |-> type, status |-> "pending", passed |-> FALSE]

NoChecks ==
  [lint |-> Pending("lint"), build |-> Pending("build"),
   browser |-> Pending("browser")]

NoRuns == [lint |-> 0, build |-> 0, browser |-> 0]

NoPhaseResult ==
  [lint |-> Pending("lint"), build |-> Pending("build"),
   browserTests |-> Pending("browser"), allPassed |-> FALSE,
   failedTests |-> <<>>]

TestPhaseIdle ==
  /\ tpPc = "idle"
  /\ tpRuns = NoRuns
  /\ tpChecks = NoChecks
  /\ tpResult = NoPhaseResult

\* FeatureManager instances sharing feature_list.json: the orchestrator's
\* and the coordinator's.  Nothing loaded, nothing being written.
Managers == {"orchestrator", "coordinator"}

NoStoreCall ==
  [op |-> "none", by |-> "none", id |-> Null, outcome |-> "none", ret |-> Null]

NotLoaded == [loaded |-> FALSE, features |-> <<>>]

NotWriting == [active |-> FALSE, op |-> "none", features |-> <<>>]

EmptyContent == [totalFeatures |-> 0, completedFeatures |-> 0, features |-> <<>>]

FeatureFileMissing == [status |-> "missing", content |-> EmptyContent]

ManagersFresh ==
  /\ fmCache = [m \in Managers |-> NotLoaded]
  /\ fsWriting = [m \in Managers |-> NotWriting]
  /\ fsLast = NoStoreCall

\* ProgressTracker: no recordProgress call made yet
NoEntry ==
  [agentType |-> Undefined, featureWorkedOn |-> Null,
   featureCompleted |-> Undefined, testsRun |-> 0, testsPassed |-> 0]

NoSessionCall == [op |-> "none", id |-> Null, outcome |-> "none"]

NoSessions ==
  /\ sessions = <<>>
  /\ currentSession = Null
  /\ ssLast = NoSessionCall

(***************************************************************************)
(* WorkflowEngine.createInitialContext and the constructor.  The           *)
(* constructor stores projectRoot and the managers; its maxIterations      *)
(* parameter (default 3) is not stored, and the context is created with    *)
(* maxIterations: 3.                                                       *)
(***************************************************************************)
createInitialContext ==
  [currentStep |-> 1, state |-> "idle", currentFeatureId |-> Null,
   iterationCount |-> 0, maxIterations |-> DefaultMaxIterations]

\* a key a WorkflowResult or StepResult object does not have
Absent == [present |-> FALSE, value |-> NoPhaseResult]

NoResult ==
  [returned |-> FALSE, success |-> FALSE, featureCompleted |-> FALSE,
   featureId |-> Null, iterations |-> 0, testResults |-> Absent]

ConstructEngine(maxIterations) ==
  /\ TestLedgerAbsent
  /\ ManagersFresh
  /\ TestPhaseIdle
  /\ StateFileAbsent
  /\ BacklogAbsent
  /\ CoordinatorIdle
  /\ NoSessions
  /\ wfCap = maxIterations
  /\ ctx = createInitialContext
  /\ pc = "idle"
  /\ steps = <<>>
  /\ iterations = 0
  /\ allPassed = FALSE
  /\ result = NoResult

(***************************************************************************)
(* Selection as a pure function: the collection is drawn once (as          *)
(* saveFeatureList stored it), the query is applied to it.                 *)
(***************************************************************************)
InitSelect ==
  /\ features \in FeatureLists
  /\ counts = savedCounts(features)
  /\ fmLast = NoCall
  /\ featureFile = FeatureFileMissing
  /\ progressLog = <<>>
  /\ ptLast = NoEntry
  /\ ConstructEngine(DefaultMaxIterations)

GetNextIncompleteFeature ==
  /\ fmLast' = [op |-> "next", id |-> Null, steps |-> <<>>,
                ret |-> getNextIncompleteFeature(features),
                outcome |-> "returned"]
  /\ UNCHANGED <<features, counts, wfVars, tmVars, smVars, bmVars, ptVars,
              coVars, ssVars, tpVars, fsVars>>

NextSelect == GetNextIncompleteFeature

SpecSelect == InitSelect /\ [][NextSelect]_vars

(***************************************************************************)
(* FeatureManager.expandFeature: the collection a project starts from.  A  *)
(* spec feature becomes a base feature followed by its error-handling      *)
(* feature, which has a larger priority number and depends on the base     *)
(* feature; every feature starts with passes = false.                      *)
(***************************************************************************)
ExpandedFeature(i) ==
  IF i % 2 = 1
  THEN Feature(i, PriorityMedium, {}, FALSE)
  ELSE Feature(i, PriorityMedium + ErrorHandlingOffset, {i - 1}, FALSE)

ExpandedList(n) == [i \in 1..n |-> ExpandedFeature(i)]

(***************************************************************************)
(* FeatureManager.markFeatureComplete(featureId, verificationSteps)        *)
(***************************************************************************)
StepLists == UNION {[1..n -> BOOLEAN] : n \in 0..MaxSteps}

\* verificationSteps.some(s => s.passed) in place of every
someStepPassed(verificationSteps) == \E k \in 1..Len(verificationSteps) : verificationSteps[k]

\* verificationSteps.every(s => s.passed)
everyStepPassed(verificationSteps) == \A k \in 1..Len(verificationSteps) : verificationSteps[k]

\* verificationSteps.map(s => `${s.step}: ${s.passed ? 'PASS' : 'FAIL'}`)
formatNotes(verificationSteps) ==
  [k \in 1..Len(verificationSteps) |-> IF verificationSteps[k] THEN "PASS" ELSE "FAIL"]

PositionOf(list, fid) ==
  CHOOSE i \in 1..Len(list) :
     /\ list[i].id = fid
     /\ \A j \in 1..(i - 1) : list[j].id # fid

\* a rejected call clears the feature's passes before it throws
markFeatureCompleteRevoking(list, fid, verificationSteps) ==
  IF ~HasFeature(list, fid)
  THEN [outcome |-> "notfound", features |-> list]
  ELSE IF ~everyStepPassed(verificationSteps)
  THEN [outcome |-> "rejected",
        features |-> [list EXCEPT ![PositionOf(list, fid)] =
                        [@ EXCEPT !.passes = FALSE]]]
  ELSE [outcome |-> "returned",
        features |-> [list EXCEPT ![PositionOf(list, fid)] =
                        [@ EXCEPT !.passes = TRUE,
                                  !.completedAt = Stamped,
                                  !.verificationNotes = formatNotes(verificationSteps)]]]

markFeatureComplete(list, fid, verificationSteps) ==
  IF ~HasFeature(list, fid)
  THEN [outcome |-> "notfound", features |-> list]
  ELSE IF ~everyStepPassed(verificationSteps)
  THEN [outcome |-> "rejected", features |-> list]
  ELSE [outcome |-> "returned",
        features |-> [list EXCEPT ![PositionOf(list, fid)] =
                        [@ EXCEPT !.passes = TRUE,
                                  !.completedAt = Stamped,
                                  !.verificationNotes = formatNotes(verificationSteps)]]]

MarkFeatureComplete(fid, verificationSteps) ==
  LET r == markFeatureComplete(features, fid, verificationSteps)
  IN  /\ features' = r.features
      /\ counts' = IF r.outcome = "returned" THEN savedCounts(r.features)
                   ELSE counts
      /\ fmLast' = [op |-> "mark", id |-> fid, steps |-> verificationSteps, ret |-> Null,
                    outcome |-> r.outcome]
      /\ UNCHANGED <<wfVars, tmVars, smVars, bmVars, ptVars,
              coVars, ssVars, tpVars, fsVars>>

InitFM ==
  /\ features \in {ExpandedList(n) : n \in 0..MaxFeatures}
  /\ counts = savedCounts(features)
  /\ fmLast = NoCall
  /\ featureFile = FeatureFileMissing
  /\ progressLog = <<>>
  /\ ptLast = NoEntry
  /\ ConstructEngine(DefaultMaxIterations)

NextFM ==
  \/ GetNextIncompleteFeature
  \/ \E fid \in 1..(MaxFeatures + 1), verificationSteps \in StepLists :
        MarkFeatureComplete(fid, verificationSteps)

SpecFM == InitFM /\ [][NextFM]_vars

(***************************************************************************)
(* The test ledger: no tests.json to begin with                            *)
(***************************************************************************)
InitTM ==
  /\ features = <<>>
  /\ counts = savedCounts(features)
  /\ fmLast = NoCall
  /\ featureFile = FeatureFileMissing
  /\ progressLog = <<>>
  /\ ptLast = NoEntry
  /\ ConstructEngine(DefaultMaxIterations)

NextTM ==
  \/ AddTest
  \/ \E testId \in 1..(MaxTests + 1), shot \in EvidencePaths, log \in EvidencePaths :
        MarkTestPassing(testId, shot, log)
  \/ \E testId \in 1..(MaxTests + 1) : MarkTestFailing(testId)

SpecTM == InitTM /\ [][NextTM]_vars

(***************************************************************************)
(* The ledger read: getTest, getFailingTests, getPassingTests, getNextTest, *)
(* getProgressSummary and validate each begin with loadSuite() and write   *)
(* nothing themselves.  tests.json may have been left unparsable by        *)
(* somebody else (an edit by hand, a damaged byte): the file then has      *)
(* state "unparsable" and its tests are the records its text holds.        *)
(***************************************************************************)
LedgerQueries ==
  {"getTest", "getFailingTests", "getPassingTests", "getNextTest",
   "getProgressSummary", "validate"}

\* tests.json after loadSuite(): initialize() has saved the empty suite
\* over a missing or unparsable file
fileAfterLoadSuite(file) == IF file.state = "ok" THEN file ELSE EmptySuite

QueryLedger(op) ==
  /\ op \in LedgerQueries
  /\ testsFile' = fileAfterLoadSuite(testsFile)
  /\ tmLast' = [op |-> op, testId |-> Null, screenshot_path |-> Unset,
                console_log_path |-> Unset, ret |-> TRUE]
  /\ UNCHANGED <<fmVars, wfVars, smVars, bmVars, ptVars,
              coVars, ssVars, tpVars, fsVars>>

DamageLedger ==
  /\ testsFile.state = "ok"
  /\ testsFile' = [testsFile EXCEPT !.state = "unparsable"]
  /\ tmLast' = [op |-> "edit", testId |-> Null, screenshot_path |-> Unset,
                console_log_path |-> Unset, ret |-> TRUE]
  /\ UNCHANGED <<fmVars, wfVars, smVars, bmVars, ptVars,
              coVars, ssVars, tpVars, fsVars>>

InitLedgerReads ==
  /\ features = <<>>
  /\ counts = savedCounts(features)
  /\ fmLast = NoCall
  /\ featureFile = FeatureFileMissing
  /\ progressLog = <<>>
  /\ ptLast = NoEntry
  /\ ConstructEngine(DefaultMaxIterations)

NextLedgerReads ==
  \/ AddTest
  \/ \E testId \in 1..(MaxTests + 1), shot \in EvidencePaths, log \in EvidencePaths :
        MarkTestPassing(testId, shot, log)
  \/ \E testId \in 1..(MaxTests + 1) : MarkTestFailing(testId)
  \/ \E op \in LedgerQueries : QueryLedger(op)
  \/ DamageLedger

SpecLedgerReads == InitLedgerReads /\ [][NextLedgerReads]_vars

(***************************************************************************)
(* The state store: no agent_state.json to begin with                      *)
(***************************************************************************)
InitSM ==
  /\ features = <<>>
  /\ counts = savedCounts(features)
  /\ fmLast = NoCall
  /\ featureFile = FeatureFileMissing
  /\ progressLog = <<>>
  /\ ptLast = NoEntry
  /\ ConstructEngine(DefaultMaxIterations)

NextSM ==
  \/ ReadState
  \/ ShouldContinue
  \/ ShouldPause
  \/ \E updates \in StateUpdates : WriteState(updates)
  \/ \E u \in ConvenienceUpdates : ConvenienceTransition(u)
  \/ \E contents \in StateFileContents : ExternalEdit(contents)

SpecSM == InitSM /\ [][NextSM]_vars

(***************************************************************************)
(* The state store's other fields: writes that supply the optional fields  *)
(* (phase, issue, restart counter, last commit), the convenience           *)
(* transitions, and a file whose state fields somebody edits or that       *)
(* somebody removes.                                                       *)
(***************************************************************************)
FieldUpdates ==
  {Updates(Omitted, Omitted, by, Omitted, phaseName, issue, restarts, commit) :
     by \in {Omitted, "human"},
     phaseName \in {Omitted, "building"},
     issue \in {Omitted, "42"},
     restarts \in {Omitted, "3"},
     commit \in {Omitted, "abc123"}}

InitSMFields ==
  /\ features = <<>>
  /\ counts = savedCounts(features)
  /\ fmLast = NoCall
  /\ featureFile = FeatureFileMissing
  /\ progressLog = <<>>
  /\ ptLast = NoEntry
  /\ ConstructEngine(DefaultMaxIterations)

NextSMFields ==
  \/ \E updates \in FieldUpdates : WriteState(updates)
  \/ \E u \in ConvenienceUpdates : ConvenienceTransition(u)
  \/ \E field \in {"desired_state", "current_state"}, value \in {"bogus", "", Undefined} :
        ExternalFieldEdit(field, value)
  \/ \E contents \in {StatesOnly("missing", Undefined, Undefined, Undefined),
                       StatesOnly("unparsable", Undefined, Undefined, Undefined)} :
        ExternalEdit(contents)

SpecSMFields == InitSMFields /\ [][NextSMFields]_vars

(***************************************************************************)
(* The human backlog: no human_backlog.json to begin with                  *)
(***************************************************************************)
InitBM ==
  /\ features = <<>>
  /\ counts = savedCounts(features)
  /\ fmLast = NoCall
  /\ featureFile = FeatureFileMissing
  /\ progressLog = <<>>
  /\ ptLast = NoEntry
  /\ ConstructEngine(DefaultMaxIterations)

NextBM ==
  \/ \E priority \in BacklogPriorities : AddItem(priority)
  \/ \E id \in 1..(MaxItems + 1), status \in BacklogStatuses : UpdateStatus(id, status)
  \/ \E id \in 1..(MaxItems + 1) : MarkComplete(id)
  \/ \E id \in 1..(MaxItems + 1) : MarkInProgress(id)
  \/ \E id \in 1..(MaxItems + 1) : MarkBlocked(id)
  \/ \E id \in 1..(MaxItems + 1), author \in {"agent", "human"} : AddComment(id, author)
  \/ GetNextItem

SpecBM == InitBM /\ [][NextBM]_vars

(***************************************************************************)
(* The comment threads of the backlog: items are added, marked in          *)
(* progress, blocked and complete, and a human comments on them.           *)
(***************************************************************************)
InitBMComments ==
  /\ features = <<>>
  /\ counts = savedCounts(features)
  /\ fmLast = NoCall
  /\ featureFile = FeatureFileMissing
  /\ progressLog = <<>>
  /\ ptLast = NoEntry
  /\ ConstructEngine(DefaultMaxIterations)

NextBMComments ==
  \/ AddItem("medium")
  \/ \E id \in 1..(MaxItems + 1) : MarkComplete(id)
  \/ \E id \in 1..(MaxItems + 1) : MarkInProgress(id)
  \/ \E id \in 1..(MaxItems + 1) : MarkBlocked(id)
  \/ \E id \in 1..(MaxItems + 1) : AddComment(id, "human")

SpecBMComments == InitBMComments /\ [][NextBMComments]_vars

(***************************************************************************)
(* TestPhase: the three checks and their aggregate.  runLint and runBuild  *)
(* pass when their command exits 0; runBrowserTests is skipped (and counts *)
(* as passed) without a package.json, and otherwise passes or fails.       *)
(***************************************************************************)
BrowserOutcomes == {"skipped", "passed", "failed"}

runLint(exitOk) ==
  [type |-> "lint", status |-> IF exitOk THEN "passed" ELSE "failed",
   passed |-> exitOk]

runBuild(exitOk) ==
  [type |-> "build", status |-> IF exitOk THEN "passed" ELSE "failed",
   passed |-> exitOk]

runBrowserTests(outcome) ==
  [type |-> "browser", status |-> outcome, passed |-> outcome # "failed"]

\* the aggregate with the browser check left out of the decision
collectResultsWithoutBrowser(lintResult, buildResult, browserResult) ==
  LET failedTests ==
        (IF ~lintResult.passed THEN <<"lint">> ELSE <<>>)
        \o (IF ~buildResult.passed THEN <<"build">> ELSE <<>>)
  IN  [lint |-> lintResult, build |-> buildResult,
       browserTests |-> browserResult,
       allPassed |-> Len(failedTests) = 0, failedTests |-> failedTests]

\* the failed check names and the overall decision
collectResults(lintResult, buildResult, browserResult) ==
  LET failedTests ==
        (IF ~lintResult.passed THEN <<"lint">> ELSE <<>>)
        \o (IF ~buildResult.passed THEN <<"build">> ELSE <<>>)
        \o (IF ~browserResult.passed THEN <<"browser">> ELSE <<>>)
  IN  [lint |-> lintResult, build |-> buildResult,
       browserTests |-> browserResult,
       allPassed |-> Len(failedTests) = 0, failedTests |-> failedTests]

executeTestPhase(lintOk, buildOk, browser) ==
  collectResults(runLint(lintOk), runBuild(buildOk), runBrowserTests(browser))

(***************************************************************************)
(* TestPhase.executeTestPhase step by step: the three checks are awaited  *)
(* one after the other, then the results are put together.                 *)
(***************************************************************************)
\* config.failFast honoured: a failed check ends the run of checks
nextCheckFailFast(checkResult) ==
  IF ~checkResult.passed THEN "aggregate"
  ELSE CASE checkResult.type = "lint" -> "build"
         [] checkResult.type = "build" -> "browser"
         [] checkResult.type = "browser" -> "aggregate"

\* the statement that follows a check's await, whatever the check returned
nextCheck(checkResult) ==
  CASE checkResult.type = "lint" -> "build"
    [] checkResult.type = "build" -> "browser"
    [] checkResult.type = "browser" -> "aggregate"

StartTestPhase ==
  /\ tpPc \in {"idle", "returned"}
  /\ tpPc' = "lint"
  /\ tpRuns' = NoRuns
  /\ tpChecks' = NoChecks
  /\ UNCHANGED <<tpResult, fmVars, wfVars, tmVars, smVars, bmVars, ptVars,
              coVars, ssVars, fsVars>>

RunLint(exitOk) ==
  /\ tpPc = "lint"
  /\ tpChecks' = [tpChecks EXCEPT !.lint = runLint(exitOk)]
  /\ tpRuns' = [tpRuns EXCEPT !.lint = @ + 1]
  /\ tpPc' = nextCheck(runLint(exitOk))
  /\ UNCHANGED <<tpResult, fmVars, wfVars, tmVars, smVars, bmVars, ptVars,
              coVars, ssVars, fsVars>>

RunBuild(exitOk) ==
  /\ tpPc = "build"
  /\ tpChecks' = [tpChecks EXCEPT !.build = runBuild(exitOk)]
  /\ tpRuns' = [tpRuns EXCEPT !.build = @ + 1]
  /\ tpPc' = nextCheck(runBuild(exitOk))
  /\ UNCHANGED <<tpResult, fmVars, wfVars, tmVars, smVars, bmVars, ptVars,
              coVars, ssVars, fsVars>>

RunBrowserTests(outcome) ==
  /\ tpPc = "browser"
  /\ tpChecks' = [tpChecks EXCEPT !.browser = runBrowserTests(outcome)]
  /\ tpRuns' = [tpRuns EXCEPT !.browser = @ + 1]
  /\ tpPc' = nextCheck(runBrowserTests(outcome))
  /\ UNCHANGED <<tpResult, fmVars, wfVars, tmVars, smVars, bmVars, ptVars,
              coVars, ssVars, fsVars>>

CollectResults ==
  /\ tpPc = "aggregate"
  /\ tpResult' = collectResults(tpChecks.lint, tpChecks.build, tpChecks.browser)
  /\ tpPc' = "returned"
  /\ UNCHANGED <<tpRuns, tpChecks, fmVars, wfVars, tmVars, smVars, bmVars,
              ptVars, coVars, ssVars, fsVars>>

(***************************************************************************)
(* WorkflowEngine step results (StepResult: step, success, nextAction)     *)
(***************************************************************************)
StepResult(step, success, nextAction) ==
  [step |-> step, success |-> success, nextAction |-> nextAction]

\* executeStep1: init.sh missing; started and the server answered; the
\* liveness probe gave up; chmod threw
Step1Outcomes == {"missing", "ready", "timeout", "error"}

executeStep1(outcome) ==
  CASE outcome = "missing" -> StepResult(1, FALSE, "abort")
    [] outcome = "timeout" -> StepResult(1, FALSE, "retry")
    [] outcome = "ready"   -> StepResult(1, TRUE, "continue")
    [] OTHER               -> StepResult(1, FALSE, "retry")

\* the select step succeeding without a feature to select
executeStep2Unchecked(list, loadThrows) ==
  IF loadThrows THEN StepResult(2, FALSE, "retry")
  ELSE StepResult(2, TRUE, "continue")

\* executeStep2: loadThrows is feature_list.json being unreadable
executeStep2(list, loadThrows) ==
  IF loadThrows THEN StepResult(2, FALSE, "retry")
  ELSE IF getNextIncompleteFeature(list) = Null
       THEN StepResult(2, FALSE, "abort")
       ELSE StepResult(2, TRUE, "continue")

executeStep3 == StepResult(3, TRUE, "continue")

executeStep4(testResults) ==
  IF testResults.allPassed THEN StepResult(4, TRUE, "continue")
  ELSE StepResult(4, FALSE, "retry")

(***************************************************************************)
(* WorkflowEngine.createFailedResult                                       *)
(***************************************************************************)
createFailedResult(cx) ==
  [returned |-> TRUE, success |-> FALSE, featureCompleted |-> FALSE,
   featureId |-> cx.currentFeatureId, iterations |-> cx.iterationCount,
   testResults |-> Absent]

(***************************************************************************)
(* executeWorkflow's loop head: while (!allPassed && iterations <          *)
(* this.context.maxIterations), and what follows either way: the next      *)
(* iteration's first statements, or the return after the loop.             *)
(***************************************************************************)
\* stepResult['testResults']: undefined for an object without that key
propertyTestResults(stepResult) ==
  IF "testResults" \in DOMAIN stepResult
  THEN [present |-> TRUE, value |-> stepResult.testResults]
  ELSE Absent

\* steps.find(s => s.step === 4 && s.success)?.['testResults']
findTestResults(stepResults) ==
  LET passed == SelectSeq(stepResults, LAMBDA s : s.step = 4 /\ s.success)
  IN  IF passed = <<>> THEN Absent ELSE propertyTestResults(Head(passed))

\* the loop allowed twice as many iterations
loopContinuesTwiceCap(ap, it, cap) == ~ap /\ it < 2 * cap

\* the bound off by one
loopContinuesInclusive(ap, it, cap) == ~ap /\ it <= cap

loopContinues(ap, it, cap) == ~ap /\ it < cap

LoopHead(ap, it, cx) ==
  IF loopContinues(ap, it, cx.maxIterations)
  THEN /\ iterations' = it + 1
       /\ ctx' = [cx EXCEPT !.iterationCount = it + 1, !.state = "coding"]
       /\ pc' = "step3"
       /\ result' = result
  ELSE /\ iterations' = it
       /\ ctx' = cx
       /\ pc' = "done"
       /\ result' = [returned |-> TRUE, success |-> ap,
                     featureCompleted |-> ap,
                     featureId |-> cx.currentFeatureId, iterations |-> it,
                     testResults |-> findTestResults(steps')]

(***************************************************************************)
(* executeWorkflow, one action per awaited step                            *)
(***************************************************************************)
\* a call of executeWorkflow on the engine, up to the await of executeStep1
StartWorkflow ==
  /\ pc \in {"idle", "done"}
  /\ steps' = <<>>
  /\ ctx' = [ctx EXCEPT !.state = "initializing"]
  /\ pc' = "step1"
  /\ iterations' = 0
  /\ allPassed' = FALSE
  /\ result' = NoResult
  /\ UNCHANGED <<wfCap, fmVars, tmVars, smVars, bmVars, ptVars,
              coVars, ssVars, tpVars, fsVars>>

ExecuteStep1(outcome) ==
  /\ pc = "step1"
  /\ LET r == executeStep1(outcome)
         cx == IF r.success THEN [ctx EXCEPT !.currentStep = 2] ELSE ctx
     IN  /\ steps' = Append(steps, r)
         /\ IF ~r.success
            THEN /\ ctx' = [cx EXCEPT !.state = "failed"]
                 /\ result' = createFailedResult(cx)
                 /\ pc' = "done"
            ELSE /\ ctx' = [cx EXCEPT !.state = "selecting"]
                 /\ result' = result
                 /\ pc' = "step2"
  /\ UNCHANGED <<wfCap, iterations, allPassed, fmVars, tmVars, smVars, bmVars, ptVars,
              coVars, ssVars, tpVars, fsVars>>

ExecuteStep2(loadThrows) ==
  /\ pc = "step2"
  /\ LET r == executeStep2(features, loadThrows)
         cx == IF r.success
               THEN [ctx EXCEPT !.currentFeatureId = getNextIncompleteFeature(features),
                                !.currentStep = 3]
               ELSE ctx
     IN  /\ steps' = Append(steps, r)
         /\ IF ~r.success
            THEN /\ ctx' = [cx EXCEPT !.state = "failed"]
                 /\ result' = createFailedResult(cx)
                 /\ pc' = "done"
                 /\ UNCHANGED <<iterations, allPassed>>
            ELSE /\ allPassed' = FALSE
                 /\ LoopHead(FALSE, 0, cx)
  /\ UNCHANGED <<wfCap, fmVars, tmVars, smVars, bmVars, ptVars,
              coVars, ssVars, tpVars, fsVars>>

ExecuteStep3 ==
  /\ pc = "step3"
  /\ LET r == executeStep3
         cx == [ctx EXCEPT !.currentStep = 4]
     IN  /\ steps' = Append(steps, r)
         /\ IF ~r.success
            THEN LoopHead(allPassed, iterations, cx)
            ELSE /\ ctx' = [cx EXCEPT !.state = "verifying"]
                 /\ pc' = "step4"
                 /\ UNCHANGED <<iterations, result>>
  /\ UNCHANGED <<wfCap, allPassed, fmVars, tmVars, smVars, bmVars, ptVars,
              coVars, ssVars, tpVars, fsVars>>

ExecuteStep4(lintOk, buildOk, browser) ==
  /\ pc = "step4"
  /\ LET testResults == executeTestPhase(lintOk, buildOk, browser)
         r == executeStep4(testResults)
         cx == IF r.success THEN [ctx EXCEPT !.state = "completed"]
               ELSE [ctx EXCEPT !.state = "coding"]
     IN  /\ steps' = Append(steps, r)
         /\ allPassed' = r.success
         /\ LoopHead(r.success, iterations, cx)
  /\ UNCHANGED <<wfCap, fmVars, tmVars, smVars, bmVars, ptVars,
              coVars, ssVars, tpVars, fsVars>>

(***************************************************************************)
(* The backlog a workflow invocation finds: a project's collection with    *)
(* any of its features already completed, and an engine constructed with   *)
(* any maxIterations argument.                                             *)
(***************************************************************************)
CompletedIn(list, done) ==
  [i \in 1..Len(list) |->
     IF i \in done
     THEN [list[i] EXCEPT !.passes = TRUE, !.completedAt = Stamped,
                          !.verificationNotes = <<"PASS">>]
     ELSE list[i]]

BacklogStates ==
  UNION {{CompletedIn(ExpandedList(n), done) : done \in SUBSET (1..n)} :
           n \in 0..MaxFeatures}

InitWF ==
  /\ features \in BacklogStates
  /\ counts = savedCounts(features)
  /\ fmLast = NoCall
  /\ featureFile = FeatureFileMissing
  /\ progressLog = <<>>
  /\ ptLast = NoEntry
  /\ \E maxIterations \in 1..MaxCapArg : ConstructEngine(maxIterations)

NextWF ==
  \/ StartWorkflow
  \/ \E outcome \in Step1Outcomes : ExecuteStep1(outcome)
  \/ \E loadThrows \in BOOLEAN : ExecuteStep2(loadThrows)
  \/ ExecuteStep3
  \/ \E lintOk \in BOOLEAN, buildOk \in BOOLEAN, browser \in BrowserOutcomes :
        ExecuteStep4(lintOk, buildOk, browser)

SpecWF == InitWF /\ [][NextWF]_vars

(***************************************************************************)
(* The same invocations with every awaited step returning: init.sh and the *)
(* liveness probe end by success, failure or the probe's timeout, the      *)
(* feature query returns or throws, and each check command exits.  Nothing *)
(* obliges a caller to invoke executeWorkflow again.                       *)
(***************************************************************************)
StepReturns ==
  \/ \E outcome \in Step1Outcomes : ExecuteStep1(outcome)
  \/ \E loadThrows \in BOOLEAN : ExecuteStep2(loadThrows)
  \/ ExecuteStep3
  \/ \E lintOk \in BOOLEAN, buildOk \in BOOLEAN, browser \in BrowserOutcomes :
        ExecuteStep4(lintOk, buildOk, browser)

SpecWFLive == InitWF /\ [][NextWF]_vars /\ WF_vars(StepReturns)

(***************************************************************************)
(* The test phase on its own: calls of executeTestPhase, one after another *)
(***************************************************************************)
InitTP ==
  /\ features = <<>>
  /\ counts = savedCounts(features)
  /\ fmLast = NoCall
  /\ featureFile = FeatureFileMissing
  /\ progressLog = <<>>
  /\ ptLast = NoEntry
  /\ ConstructEngine(DefaultMaxIterations)

NextTP ==
  \/ StartTestPhase
  \/ \E exitOk \in BOOLEAN : RunLint(exitOk)
  \/ \E exitOk \in BOOLEAN : RunBuild(exitOk)
  \/ \E outcome \in BrowserOutcomes : RunBrowserTests(outcome)
  \/ CollectResults

SpecTP == InitTP /\ [][NextTP]_vars

(***************************************************************************)
(* ProgressTracker: claude-progress.txt is a sequence of formatted         *)
(* sections, one per recordProgress call; readers parse it back.           *)
(***************************************************************************)
ProgressEntry(agentType, featureWorkedOn, featureCompleted, testsRun, testsPassed) ==
  [agentType |-> agentType, featureWorkedOn |-> featureWorkedOn,
   featureCompleted |-> featureCompleted, testsRun |-> testsRun,
   testsPassed |-> testsPassed]

\* the lines of a section that readers look at; a line that is not written
\* is "none" (Feature, Status) or the empty pair (Tests)
formatProgressEntry(entry) ==
  [agentType |-> entry.agentType,
   feature |-> entry.featureWorkedOn,
   status |-> IF entry.featureWorkedOn # Null /\ entry.featureCompleted # Undefined
              THEN IF entry.featureCompleted = "true" THEN "Completed" ELSE "In Progress"
              ELSE "none",
   tests |-> IF entry.testsRun > 0 THEN <<entry.testsPassed, entry.testsRun>> ELSE <<>>]

parseSection(section) ==
  ProgressEntry(section.agentType,
                section.feature,
                IF section.status = "Completed" THEN "true"
                ELSE IF section.status = "In Progress" THEN "false"
                ELSE Undefined,
                IF section.tests = <<>> THEN 0 ELSE section.tests[2],
                IF section.tests = <<>> THEN 0 ELSE section.tests[1])

parseProgressEntries(content) == [i \in 1..Len(content) |-> parseSection(content[i])]

\* the sessions counted from the end while each completed a feature or
\* passed a test
RECURSIVE CountStreak(_, _)
CountStreak(entries, i) ==
  IF i = 0 THEN 0
  ELSE IF entries[i].featureCompleted = "true" \/ entries[i].testsPassed > 0
       THEN 1 + CountStreak(entries, i - 1)
       ELSE 0

\* entries.slice(-RecentWindow)
LastEntries(entries) ==
  IF Len(entries) <= RecentWindow THEN entries
  ELSE SubSeq(entries, Len(entries) - RecentWindow + 1, Len(entries))

getCurrentProgress(content) ==
  LET entries == parseProgressEntries(content)
  IN  [totalSessions |-> Len(entries),
       totalFeaturesCompleted |->
         Cardinality({i \in 1..Len(entries) : entries[i].featureCompleted = "true"}),
       currentStreak |-> CountStreak(entries, Len(entries)),
       recentProgress |-> LastEntries(entries)]

RecordProgress(entry) ==
  /\ Len(progressLog) < MaxLog
  /\ progressLog' = Append(progressLog, formatProgressEntry(entry))
  /\ ptLast' = entry

(***************************************************************************)
(* AgentCoordinator                                                        *)
(***************************************************************************)
AgentTypes == {"initializer", "coding", "testing", "cleanup"}

getIncompleteFeatureCount(list) == Len(SelectSeq(list, IsIncomplete))

determineProjectPhase(content, list) ==
  LET progress == getCurrentProgress(content)
  IN  IF progress.totalSessions = 0 THEN "initialization"
      ELSE IF getIncompleteFeatureCount(list) = 0 THEN "completion"
      ELSE IF progress.currentStreak = 0 /\ progress.totalSessions > RefinementThreshold
           THEN "refinement"
      ELSE "development"

getNextAgentType(content, list) ==
  LET phase == determineProjectPhase(content, list)
      progress == getCurrentProgress(content)
  IN  CASE phase = "initialization" -> "initializer"
        [] phase = "development" ->
             IF /\ Len(progress.recentProgress) > 0
                /\ progress.recentProgress[1].agentType = "coding"
                /\ progress.recentProgress[1].testsRun = 0
             THEN "testing"
             ELSE "coding"
        [] phase = "refinement" -> "testing"
        [] phase = "completion" -> "cleanup"

createTask(type, priority, featureId) ==
  [type |-> type, priority |-> priority, featureId |-> featureId,
   status |-> "pending"]

createSessionTasks(content, list) ==
  LET agentType == getNextAgentType(content, list)
      nextFeature == getNextIncompleteFeature(list)
  IN  CASE agentType = "initializer" -> <<createTask("initialize_project", 100, Null)>>
        [] agentType = "coding" ->
             IF nextFeature # Null
             THEN <<createTask("implement_feature", 50, nextFeature),
                    createTask("write_tests", 40, nextFeature)>>
             ELSE <<>>
        [] agentType = "testing" -> <<createTask("run_tests", 60, Null)>>
        [] agentType = "cleanup" -> <<createTask("code_review", 30, Null),
                                      createTask("cleanup", 25, Null),
                                      createTask("documentation", 20, Null)>>

CreateSessionTasks ==
  LET tasks == createSessionTasks(progressLog, features)
  IN  /\ Len(taskQueue) + Len(tasks) <= MaxQueue
      /\ taskQueue' = taskQueue \o tasks
      /\ coLast' = [op |-> "createSessionTasks",
                    agentType |-> getNextAgentType(progressLog, features),
                    tasks |-> tasks, promptFeature |-> Null,
                    outcome |-> "returned", phase |-> "none"]
      /\ UNCHANGED <<fmVars, wfVars, tmVars, smVars, bmVars, ptVars, ssVars, tpVars,
              fsVars>>

\* the feature the task section of the prompt names
buildTaskSection(agentType, feature) ==
  IF agentType = "coding" /\ feature # Null THEN feature ELSE Null

GenerateSessionPrompt(agentType) ==
  /\ coLast' = [op |-> "generateSessionPrompt", agentType |-> agentType,
                tasks |-> <<>>,
                promptFeature |->
                  buildTaskSection(agentType, getNextIncompleteFeature(features)),
                outcome |-> "returned", phase |-> "none"]
  /\ UNCHANGED <<taskQueue, fmVars, wfVars, tmVars, smVars, bmVars, ptVars, ssVars,
              tpVars, fsVars>>

(***************************************************************************)
(* The journals a coordinator finds: nothing, or up to                     *)
(* RefinementThreshold earlier sessions of one kind followed by a last     *)
(* one, each a coding or testing session that ran no test or passed one.   *)
(***************************************************************************)
JournalEntries ==
  {ProgressEntry(agentType, Null, Undefined, tests, tests) :
     agentType \in {"coding", "testing"}, tests \in {0, 1}}

JournalStates ==
  {<<>>} \cup
  UNION {{[i \in 1..n |-> formatProgressEntry(IF i < n THEN earlier ELSE last)] :
            earlier \in JournalEntries, last \in JournalEntries} :
         n \in 1..(RefinementThreshold + 1)}

InitCO ==
  /\ features \in BacklogStates
  /\ counts = savedCounts(features)
  /\ fmLast = NoCall
  /\ featureFile = FeatureFileMissing
  /\ progressLog \in JournalStates
  /\ ptLast = NoEntry
  /\ ConstructEngine(DefaultMaxIterations)

NextCO ==
  \/ CreateSessionTasks
  \/ \E agentType \in AgentTypes : GenerateSessionPrompt(agentType)
  \/ \E priority \in {"critical", "low"} : AddItem(priority)

SpecCO == InitCO /\ [][NextCO]_vars

(***************************************************************************)
(* SessionManager: .agent-sessions holds one record per session; the       *)
(* manager remembers the session it created or started last.               *)
(***************************************************************************)
SessionStatuses == {"pending", "running", "completed", "failed", "timeout"}

EndStatuses == {"completed", "failed", "timeout"}

\* loadSession: the stored record, or null when there is none
HasSession(sessionId) == sessionId \in 1..Len(sessions)

createSession(type) ==
  [id |-> Len(sessions) + 1, type |-> type, status |-> "pending"]

CreateSessionAs(op, type) ==
  /\ Len(sessions) < MaxSessions
  /\ sessions' = Append(sessions, createSession(type))
  /\ currentSession' = createSession(type).id
  /\ ssLast' = [op |-> op, id |-> createSession(type).id, outcome |-> "returned"]
  /\ UNCHANGED <<fmVars, wfVars, tmVars, smVars, bmVars, ptVars, coVars, tpVars,
              fsVars>>

CreateSession(type) == CreateSessionAs("createSession", type)

StartSession(sessionId) ==
  /\ IF HasSession(sessionId)
     THEN /\ sessions' = [sessions EXCEPT ![sessionId].status = "running"]
          /\ currentSession' = sessionId
          /\ ssLast' = [op |-> "startSession", id |-> sessionId, outcome |-> "returned"]
     ELSE /\ ssLast' = [op |-> "startSession", id |-> sessionId, outcome |-> "notfound"]
          /\ UNCHANGED <<sessions, currentSession>>
  /\ UNCHANGED <<fmVars, wfVars, tmVars, smVars, bmVars, ptVars, coVars, tpVars,
              fsVars>>

\* the session store and the remembered session after endSession
endSession(sessionId, status) ==
  IF HasSession(sessionId)
  THEN [outcome |-> "returned",
        sessions |-> [sessions EXCEPT ![sessionId].status = status],
        currentSession |-> IF currentSession = sessionId THEN Null
                           ELSE currentSession]
  ELSE [outcome |-> "notfound", sessions |-> sessions,
        currentSession |-> currentSession]

EndSession(sessionId, status) ==
  /\ sessions' = endSession(sessionId, status).sessions
  /\ currentSession' = endSession(sessionId, status).currentSession
  /\ ssLast' = [op |-> "endSession", id |-> sessionId,
                outcome |-> endSession(sessionId, status).outcome]
  /\ UNCHANGED <<fmVars, wfVars, tmVars, smVars, bmVars, ptVars, coVars, tpVars,
              fsVars>>

(***************************************************************************)
(* LongRunningAgentOrchestrator                                            *)
(***************************************************************************)
\* createSession('coding'); the feature id is set on the returned object only
StartCodingSession == CreateSessionAs("startCodingSession", "coding")

SessionResult(success, featureCompleted, featureId, hasSteps, verificationSteps, tests) ==
  [success |-> success, featureCompleted |-> featureCompleted,
   featureId |-> featureId, hasSteps |-> hasSteps,
   verificationSteps |-> verificationSteps,
   testsRun |-> tests, testsPassed |-> tests]

\* a failed verification step passed over instead of raised
completeFeatureLenient(list, sessionResult) ==
  IF ~(sessionResult.featureCompleted /\ sessionResult.featureId # Null)
  THEN [outcome |-> "returned", features |-> list]
  ELSE IF sessionResult.hasSteps
  THEN [outcome |-> "returned",
        features |-> markFeatureComplete(list, sessionResult.featureId,
                                         sessionResult.verificationSteps).features]
  ELSE IF ~HasFeature(list, sessionResult.featureId)
  THEN [outcome |-> "notfound", features |-> list]
  ELSE [outcome |-> "typeerror", features |-> list]

\* step 1 of completeSession: markFeatureComplete(result.featureId,
\* result.verificationSteps); an omitted step list is undefined, and
\* undefined.every is a TypeError once the feature was found
completeFeature(list, sessionResult) ==
  IF ~(sessionResult.featureCompleted /\ sessionResult.featureId # Null)
  THEN [outcome |-> "returned", features |-> list]
  ELSE IF sessionResult.hasSteps
  THEN markFeatureComplete(list, sessionResult.featureId,
                           sessionResult.verificationSteps)
  ELSE IF ~HasFeature(list, sessionResult.featureId)
  THEN [outcome |-> "notfound", features |-> list]
  ELSE [outcome |-> "typeerror", features |-> list]

\* the entry completeSession hands to recordProgress: no agentType and no
\* featureWorkedOn (the feature goes under the key featureId)
completionEntry(sessionResult) ==
  ProgressEntry(Undefined, Null,
                IF sessionResult.featureCompleted THEN "true" ELSE "false",
                sessionResult.testsRun, sessionResult.testsPassed)

CompleteSession(sessionId, sessionResult) ==
  LET marked == completeFeature(features, sessionResult)
      ended == endSession(sessionId,
                          IF sessionResult.success THEN "completed" ELSE "failed")
  IN  /\ features' = marked.features
      /\ counts' = IF features' # features THEN savedCounts(features') ELSE counts
      /\ UNCHANGED fmLast
      /\ IF marked.outcome # "returned"
         THEN /\ ssLast' = [op |-> "completeSession", id |-> sessionId,
                            outcome |-> marked.outcome]
              /\ UNCHANGED <<progressLog, ptLast, sessions, currentSession>>
         ELSE /\ RecordProgress(completionEntry(sessionResult))
              /\ sessions' = ended.sessions
              /\ currentSession' = ended.currentSession
              /\ ssLast' = [op |-> "completeSession", id |-> sessionId,
                            outcome |-> ended.outcome]
      /\ UNCHANGED <<wfVars, tmVars, smVars, bmVars, coVars, tpVars, fsVars>>

SessionResults ==
  {SessionResult(success, featureCompleted, featureId, TRUE, verificationSteps, tests) :
     success \in BOOLEAN, featureCompleted \in BOOLEAN, featureId \in {Null, 1},
     verificationSteps \in {<<>>, <<TRUE>>, <<FALSE>>}, tests \in {0, 1}}
  \cup
  {SessionResult(success, featureCompleted, featureId, FALSE, <<>>, tests) :
     success \in BOOLEAN, featureCompleted \in BOOLEAN, featureId \in {Null, 1},
     tests \in {0, 1}}

InitSS ==
  /\ features \in {ExpandedList(n) : n \in 0..1}
  /\ counts = savedCounts(features)
  /\ fmLast = NoCall
  /\ featureFile = FeatureFileMissing
  /\ progressLog = <<>>
  /\ ptLast = NoEntry
  /\ ConstructEngine(DefaultMaxIterations)

NextSS ==
  \/ CreateSession("testing")
  \/ StartCodingSession
  \/ \E sessionId \in 1..(MaxSessions + 1) : StartSession(sessionId)
  \/ \E sessionId \in 1..(MaxSessions + 1), status \in EndStatuses :
        EndSession(sessionId, status)
  \/ \E sessionId \in 1..(MaxSessions + 1), sessionResult \in SessionResults :
        CompleteSession(sessionId, sessionResult)

SpecSS == InitSS /\ [][NextSS]_vars

(***************************************************************************)
(* Coding sessions started and completed through the orchestrator: the     *)
(* results handed to completeSession differ in the completion they claim   *)
(* (the flag, the feature id, the step list or its absence).               *)
(***************************************************************************)
CompletionResults ==
  {SessionResult(TRUE, featureCompleted, featureId, TRUE, verificationSteps, 0) :
     featureCompleted \in BOOLEAN, featureId \in {Null, 1},
     verificationSteps \in {<<>>, <<TRUE>>, <<FALSE>>}}
  \cup
  {SessionResult(TRUE, featureCompleted, featureId, FALSE, <<>>, 0) :
     featureCompleted \in BOOLEAN, featureId \in {Null, 1}}

InitComplete ==
  /\ features \in {ExpandedList(n) : n \in 0..1}
  /\ counts = savedCounts(features)
  /\ fmLast = NoCall
  /\ featureFile = FeatureFileMissing
  /\ progressLog = <<>>
  /\ ptLast = NoEntry
  /\ ConstructEngine(DefaultMaxIterations)

NextComplete ==
  \/ StartCodingSession
  \/ \E sessionId \in 1..(MaxSessions + 1) : StartSession(sessionId)
  \/ \E sessionId \in 1..(MaxSessions + 1), sessionResult \in CompletionResults :
        CompleteSession(sessionId, sessionResult)

SpecComplete == InitComplete /\ [][NextComplete]_vars

(***************************************************************************)
(* feature_list.json under several FeatureManager instances.  The file is  *)
(* JSON text; each instance keeps the list it loaded or saved last in      *)
(* this.featureList and never reads the file again.  writeFile opens the   *)
(* file truncating it and then writes: until it has finished, the file     *)
(* holds a part of the new text.                                           *)
(***************************************************************************)
IsoText == "2026-01-01T00:00:00.000Z"

\* Date.prototype.toJSON: JSON.stringify writes a Date as its ISO text
dateToJSON(value) == IF value = Stamped THEN IsoText ELSE value

\* JSON.stringify of a Feature: a key whose value is undefined is left out
stringifyFeature(f) ==
  [id |-> f.id, priority |-> f.priority, dependencies |-> f.dependencies,
   passes |-> f.passes,
   keys |-> (IF f.completedAt # NoTime THEN {"completedAt"} ELSE {})
            \cup (IF f.verificationNotes # NoNotes THEN {"verificationNotes"} ELSE {}),
   completedAt |-> IF f.completedAt # NoTime THEN dateToJSON(f.completedAt) ELSE "",
   verificationNotes |-> IF f.verificationNotes # NoNotes THEN f.verificationNotes
                         ELSE <<>>]

\* JSON.parse of a Feature: no reviver, a missing key reads as undefined
parseFeature(json) ==
  [id |-> json.id, priority |-> json.priority, dependencies |-> json.dependencies,
   passes |-> json.passes,
   completedAt |-> IF "completedAt" \in json.keys THEN json.completedAt ELSE NoTime,
   verificationNotes |-> IF "verificationNotes" \in json.keys
                         THEN json.verificationNotes ELSE NoNotes]

\* the FeatureList object saveFeatureList builds, as JSON text
stringifyList(list) ==
  [totalFeatures |-> Len(list),
   completedFeatures |-> Len(SelectSeq(list, LAMBDA f : f.passes)),
   features |-> [i \in 1..Len(list) |-> stringifyFeature(list[i])]]

parseList(content) ==
  [i \in 1..Len(content.features) |-> parseFeature(content.features[i])]

StoredList(list) == [status |-> "ok", content |-> stringifyList(list)]

PartlyWritten == [status |-> "partial", content |-> EmptyContent]

\* loadFeatureList through manager m: the cached list if there is one,
\* else the file read and parsed
loadFeatureList(m) ==
  IF fmCache[m].loaded
  THEN [outcome |-> "returned", features |-> fmCache[m].features]
  ELSE IF featureFile.status = "missing"
  THEN [outcome |-> "enoent", features |-> <<>>]
  ELSE IF featureFile.status = "partial"
  THEN [outcome |-> "syntaxerror", features |-> <<>>]
  ELSE [outcome |-> "returned", features |-> parseList(featureFile.content)]

\* this.featureList after the load
cachedAfter(m, loaded) ==
  IF loaded.outcome = "returned"
  THEN [fmCache EXCEPT ![m] = [loaded |-> TRUE, features |-> loaded.features]]
  ELSE fmCache

getFeature(list, fid) == IF HasFeature(list, fid) THEN fid ELSE Null

QueryAs(op, m, fid) ==
  /\ ~fsWriting[m].active
  /\ LET loaded == loadFeatureList(m)
     IN  /\ fmCache' = cachedAfter(m, loaded)
         /\ fsLast' =
              [op |-> op, by |-> m, id |-> fid, outcome |-> loaded.outcome,
               ret |-> IF loaded.outcome # "returned" THEN Null
                       ELSE CASE op = "next" -> getNextIncompleteFeature(loaded.features)
                              [] op = "count" -> getIncompleteFeatureCount(loaded.features)
                              [] op = "get" -> getFeature(loaded.features, fid)
                              [] op = "load" -> Len(loaded.features)]
  /\ UNCHANGED <<featureFile, fsWriting, fmVars, wfVars, tmVars, smVars, bmVars,
              ptVars, coVars, ssVars, tpVars>>

QueryNext(m) == QueryAs("next", m, Null)

QueryCount(m) == QueryAs("count", m, Null)

QueryFeature(m, fid) == QueryAs("get", m, fid)

LoadFeatureList(m) == QueryAs("load", m, Null)

\* markFeatureComplete through manager m up to the point where writeFile
\* has opened the file: the list was changed in place in this.featureList
BeginMark(m, fid, verificationSteps) ==
  /\ ~fsWriting[m].active
  /\ LET loaded == loadFeatureList(m)
         marked == markFeatureComplete(loaded.features, fid, verificationSteps)
     IN  IF loaded.outcome # "returned"
         THEN /\ fsLast' = [op |-> "mark", by |-> m, id |-> fid,
                            outcome |-> loaded.outcome, ret |-> Null]
              /\ UNCHANGED <<featureFile, fmCache, fsWriting>>
         ELSE IF marked.outcome # "returned"
         THEN /\ fmCache' = cachedAfter(m, loaded)
              /\ fsLast' = [op |-> "mark", by |-> m, id |-> fid,
                            outcome |-> marked.outcome, ret |-> Null]
              /\ UNCHANGED <<featureFile, fsWriting>>
         ELSE /\ fmCache' = [fmCache EXCEPT ![m] =
                               [loaded |-> TRUE, features |-> marked.features]]
              /\ fsWriting' = [fsWriting EXCEPT ![m] =
                                 [active |-> TRUE, op |-> "mark",
                                  features |-> marked.features]]
              /\ featureFile' = PartlyWritten
              /\ fsLast' = [op |-> "mark", by |-> m, id |-> fid,
                            outcome |-> "writing", ret |-> Null]
  /\ UNCHANGED <<fmVars, wfVars, tmVars, smVars, bmVars, ptVars, coVars,
              ssVars, tpVars>>

\* saveFeatureList(features) through manager m up to the same point
BeginSave(m, list) ==
  /\ ~fsWriting[m].active
  /\ fsWriting' = [fsWriting EXCEPT ![m] =
                     [active |-> TRUE, op |-> "save", features |-> list]]
  /\ featureFile' = PartlyWritten
  /\ fsLast' = [op |-> "save", by |-> m, id |-> Null, outcome |-> "writing",
                ret |-> Null]
  /\ UNCHANGED <<fmCache, fmVars, wfVars, tmVars, smVars, bmVars, ptVars,
              coVars, ssVars, tpVars>>

\* writeFile has finished: the file holds the whole text, and
\* this.featureList is the object that was written
FinishWrite(m) ==
  /\ fsWriting[m].active
  /\ featureFile' = StoredList(fsWriting[m].features)
  /\ fmCache' = [fmCache EXCEPT ![m] =
                   [loaded |-> TRUE, features |-> fsWriting[m].features]]
  /\ fsWriting' = [fsWriting EXCEPT ![m] = NotWriting]
  /\ fsLast' = [op |-> fsWriting[m].op, by |-> m, id |-> Null,
                outcome |-> "returned", ret |-> Null]
  /\ UNCHANGED <<fmVars, wfVars, tmVars, smVars, bmVars, ptVars, coVars,
              ssVars, tpVars>>

(***************************************************************************)
(* The feature store under two managers: a project's file, or none.        *)
(***************************************************************************)
InitFS ==
  /\ features = <<>>
  /\ counts = savedCounts(features)
  /\ fmLast = NoCall
  /\ progressLog = <<>>
  /\ ptLast = NoEntry
  /\ featureFile \in {FeatureFileMissing}
                     \cup {StoredList(ExpandedList(n)) : n \in 1..MaxFeatures}
  /\ ConstructEngine(DefaultMaxIterations)

NextFS ==
  \/ \E m \in Managers : QueryNext(m)
  \/ \E m \in Managers : QueryCount(m)
  \/ \E m \in Managers, fid \in 1..(MaxFeatures + 1) : QueryFeature(m, fid)
  \/ \E m \in Managers, fid \in 1..(MaxFeatures + 1),
        verificationSteps \in {<<TRUE>>, <<FALSE>>} :
        BeginMark(m, fid, verificationSteps)
  \/ \E m \in Managers : FinishWrite(m)

SpecFS == InitFS /\ [][NextFS]_vars

(***************************************************************************)
(* Saving collections through one manager and loading them through         *)
(* either.                                                                 *)
(***************************************************************************)
InitSaveLoad ==
  /\ features = <<>>
  /\ counts = savedCounts(features)
  /\ fmLast = NoCall
  /\ progressLog = <<>>
  /\ ptLast = NoEntry
  /\ featureFile = FeatureFileMissing
  /\ ConstructEngine(DefaultMaxIterations)

NextSaveLoad ==
  \/ \E list \in BacklogStates : BeginSave("orchestrator", list)
  \/ \E m \in Managers : FinishWrite(m)
  \/ \E m \in Managers : LoadFeatureList(m)

SpecSaveLoad == InitSaveLoad /\ [][NextSaveLoad]_vars

(***************************************************************************)
(* AgentCoordinator.determineProjectPhase on the project's files: the      *)
(* journal is read (a missing journal reads as empty), then the feature    *)
(* list is loaded through the coordinator's FeatureManager for the count   *)
(* of incomplete features, and only then are the two looked at.            *)
(***************************************************************************)
DetermineProjectPhase ==
  /\ LET loaded == loadFeatureList("coordinator")
     IN  /\ fmCache' = cachedAfter("coordinator", loaded)
         /\ coLast' =
              [op |-> "determineProjectPhase", agentType |-> "none",
               tasks |-> <<>>, promptFeature |-> Null,
               outcome |-> loaded.outcome,
               phase |-> IF loaded.outcome = "returned"
                         THEN determineProjectPhase(progressLog, loaded.features)
                         ELSE "none"]
  /\ UNCHANGED <<taskQueue, featureFile, fsWriting, fsLast, fmVars, wfVars,
                 tmVars, smVars, bmVars, ptVars, ssVars, tpVars>>

InitPhase ==
  /\ features = <<>>
  /\ counts = savedCounts(features)
  /\ fmLast = NoCall
  /\ progressLog \in JournalStates
  /\ ptLast = NoEntry
  /\ featureFile \in {FeatureFileMissing}
                     \cup {StoredList(list) : list \in BacklogStates}
  /\ ConstructEngine(DefaultMaxIterations)

NextPhase == DetermineProjectPhase

SpecPhase == InitPhase /\ [][NextPhase]_vars

(***************************************************************************)
(* Selection, stated from the stored collection alone.                     *)
(***************************************************************************)
IncompleteAt(list) == {i \in 1..Len(list) : ~list[i].passes}

DependenciesAllPassing(list, i) ==
  \A d \in list[i].dependencies :
     \E j \in 1..Len(list) : list[j].id = d /\ list[j].passes

EligibleAt(list) == {i \in IncompleteAt(list) : DependenciesAllPassing(list, i)}

\* the position in S with the smallest priority number, the earliest among ties
LeastPriorityFirst(list, S) ==
  CHOOSE i \in S :
    \A j \in S : \/ list[i].priority < list[j].priority
                 \/ list[i].priority = list[j].priority /\ i <= j

C2_NullIffAllPassElseFallback ==
  fmLast.op = "next" =>
    /\ (fmLast.ret = Null) <=> (IncompleteAt(features) = {})
    /\ (IncompleteAt(features) # {} /\ EligibleAt(features) = {})
         => fmLast.ret =
              features[LeastPriorityFirst(features, IncompleteAt(features))].id

\* every incomplete feature is blocked, one of them by a dependency that
\* names no feature, and a feature is returned all the same
C2_Witness ==
  /\ fmLast.op = "next"
  /\ IncompleteAt(features) # {}
  /\ EligibleAt(features) = {}
  /\ \E i \in IncompleteAt(features) :
        \E d \in features[i].dependencies : d > Len(features)
  /\ fmLast.ret # Null

\* C3: markFeatureComplete sets passes = true only when every supplied
\* verification step reports success; when a supplied step reports failure it
\* raises and leaves the feature records (passes, completion timestamp,
\* verification notes) and the completed-count unchanged.
C3_GuardedCompletion ==
  [][/\ \A i \in 1..Len(features) :
          (~features[i].passes /\ features'[i].passes)
            => /\ fmLast'.op = "mark"
               /\ fmLast'.id = features[i].id
               /\ \A k \in 1..Len(fmLast'.steps) : fmLast'.steps[k]
     /\ (fmLast'.op = "mark" /\ \E k \in 1..Len(fmLast'.steps) : ~fmLast'.steps[k])
          => /\ fmLast'.outcome \in {"rejected", "notfound"}
             /\ features' = features
             /\ counts' = counts]_vars

\* a call on an existing incomplete feature with one passing and one failing
\* step was rejected
C3_Witness ==
  /\ fmLast.op = "mark"
  /\ fmLast.outcome = "rejected"
  /\ \E k \in 1..Len(fmLast.steps) : fmLast.steps[k]
  /\ \E k \in 1..Len(fmLast.steps) : ~fmLast.steps[k]
  /\ \E i \in 1..Len(features) : features[i].id = fmLast.id /\ ~features[i].passes

(***************************************************************************)
(* Workflow step records                                                   *)
(***************************************************************************)
CountStep(k) == Cardinality({i \in 1..Len(steps) : steps[i].step = k})

StepNumbers == [i \in 1..Len(steps) |-> steps[i].step]

\* init and select succeeded, and no verify step succeeded
EveryVerificationFailed ==
  /\ Len(steps) >= 2
  /\ steps[1].success
  /\ steps[2].success
  /\ \A i \in 1..Len(steps) : steps[i].step = 4 => ~steps[i].success

\* C4: the code/verify loop never runs more than cap code-then-verify cycles,
\* cap being the context's maxIterations; when verification fails in every
\* cycle the result has success = false and iterations = cap, and with
\* cap = 3 the step list is init, select, then code and verify three times
\* (8 records).
C4_WorkflowBound ==
  /\ CountStep(3) <= ctx.maxIterations
  /\ CountStep(4) <= ctx.maxIterations
  /\ (result.returned /\ EveryVerificationFailed)
       => /\ ~result.success
          /\ result.iterations = ctx.maxIterations
          /\ ctx.maxIterations = 3 => StepNumbers = <<1, 2, 3, 4, 3, 4, 3, 4>>

\* an invocation returned after its third failed verification
C4_Witness ==
  /\ result.returned
  /\ EveryVerificationFailed
  /\ CountStep(4) = 3
  /\ Len(steps) = 8

\* C5: an engine constructed with maxIterations = N performs at most N
\* code-then-verify cycles and reports iterations = N when all N
\* verifications fail.
C5_ConfiguredCapHonoured ==
  /\ CountStep(3) <= wfCap
  /\ CountStep(4) <= wfCap
  /\ (result.returned /\ EveryVerificationFailed) => result.iterations = wfCap

\* C9: when executeWorkflow returns, the workflow state is completed if the
\* result is successful and failed otherwise, also when the iteration cap is
\* exhausted.
C9_TerminalStateOnReturn ==
  result.returned =>
    ctx.state = (IF result.success THEN "completed" ELSE "failed")

\* C10: the workflow stops right after a step if and only if that step's
\* nextAction is abort, the verify step succeeded, or the iteration cap is
\* exhausted; a step recorded with nextAction = retry is followed by another
\* attempt while iterations remain.
C10_NextActionHonoured ==
  /\ \A k \in 1..(Len(steps) - 1) :
        /\ steps[k].nextAction # "abort"
        /\ ~(steps[k].step = 4 /\ steps[k].success)
  /\ result.returned =>
        LET last == steps[Len(steps)]
        IN  \/ last.nextAction = "abort"
            \/ last.step = 4 /\ last.success
            \/ last.step = 4 /\ result.iterations = ctx.maxIterations

\* C6: markTestPassing sets a test's passes to true only if the test exists,
\* both evidence paths exist on disk and the console log holds no failure
\* marker; in every other case it returns failure and leaves every recorded
\* test (passes flag and verification fields) unchanged.
C6_EvidenceGatedPass ==
  [][/\ \A i \in 1..Len(testsFile.tests) :
          (i <= Len(testsFile'.tests)
             /\ ~testsFile.tests[i].passes /\ testsFile'.tests[i].passes)
            => /\ tmLast'.op = "markPassing"
               /\ tmLast'.ret
               /\ tmLast'.testId = testsFile.tests[i].id
               /\ tmLast'.screenshot_path # "missing"
               /\ tmLast'.console_log_path = "clean"
     /\ (/\ tmLast'.op = "markPassing"
         /\ \/ \A i \in 1..Len(testsFile.tests) :
                  testsFile.tests[i].id # tmLast'.testId
            \/ tmLast'.screenshot_path = "missing"
            \/ tmLast'.console_log_path # "clean")
          => /\ ~tmLast'.ret
             /\ testsFile'.tests = testsFile.tests]_vars

\* an existing failing test was refused with a screenshot that exists and a
\* console log that contains FAIL, and stays failing
C6_Witness ==
  /\ tmLast.op = "markPassing"
  /\ ~tmLast.ret
  /\ tmLast.screenshot_path = "clean"
  /\ tmLast.console_log_path = "FAIL"
  /\ \E i \in 1..Len(testsFile.tests) :
        testsFile.tests[i].id = tmLast.testId /\ ~testsFile.tests[i].passes

\* C7 as stated: for a state file in which desired_state or current_state is
\* not one of the five valid states, readState returns pause for that field
\* and the stored value for the other field.
C7_InvalidFieldAloneCoerced ==
  (smLast.op = "read" /\ stateFile.status = "ok")
    => /\ (stateFile.desired_state \in (StoredStates \ {Undefined}) \ VALID_STATES
             => /\ smLast.desired_state = "pause"
                /\ stateFile.current_state \in VALID_STATES
                     => smLast.current_state = stateFile.current_state)
       /\ (stateFile.current_state \in (StoredStates \ {Undefined}) \ VALID_STATES
             => /\ smLast.current_state = "pause"
                /\ stateFile.desired_state \in VALID_STATES
                     => smLast.desired_state = stateFile.desired_state)

\* C7, amended: readState returns only valid states; for a state file whose
\* desired_state and current_state are both present and non-empty, a field
\* that is not one of the five valid states reads as pause and the other
\* field reads as stored; an empty field makes both fields read as pause.
C7_StateCoercion ==
  smLast.op = "read"
    => /\ smLast.desired_state \in VALID_STATES
       /\ smLast.current_state \in VALID_STATES
       /\ (/\ stateFile.status = "ok"
           /\ stateFile.desired_state \notin {"", Undefined}
           /\ stateFile.current_state \notin {"", Undefined})
            => /\ smLast.desired_state =
                    (IF stateFile.desired_state \in VALID_STATES
                     THEN stateFile.desired_state ELSE "pause")
               /\ smLast.current_state =
                    (IF stateFile.current_state \in VALID_STATES
                     THEN stateFile.current_state ELSE "pause")
       /\ (stateFile.status = "ok"
           /\ ("" \in {stateFile.desired_state, stateFile.current_state}))
            => smLast.desired_state = "pause" /\ smLast.current_state = "pause"

\* desired_state bogus beside current_state continuous reads as pause and
\* continuous
C7_Witness ==
  /\ smLast.op = "read"
  /\ stateFile.status = "ok"
  /\ stateFile.desired_state = "bogus"
  /\ stateFile.current_state = "continuous"
  /\ smLast.desired_state = "pause"
  /\ smLast.current_state = "continuous"

\* C8: when the state file is missing, unparsable, or lacks desired_state or
\* current_state, readState returns pause for both fields, and shouldContinue
\* is true only when the persisted desired_state is exactly continuous.
C8_FailsTowardStopping ==
  /\ (/\ smLast.op = "read"
      /\ \/ stateFile.status \in {"missing", "unparsable"}
         \/ stateFile.desired_state = Undefined
         \/ stateFile.current_state = Undefined)
       => smLast.desired_state = "pause" /\ smLast.current_state = "pause"
  /\ (smLast.op = "shouldContinue" /\ smLast.ret)
       => stateFile.status = "ok" /\ stateFile.desired_state = "continuous"

\* shouldContinue answered false for a file whose current_state is
\* continuous and whose desired_state is missing
C8_Witness ==
  /\ smLast.op = "shouldContinue"
  /\ ~smLast.ret
  /\ stateFile.status = "ok"
  /\ stateFile.desired_state = Undefined
  /\ stateFile.current_state = "continuous"

\* C11: if the init step fails for any reason (init script missing, liveness
\* probe reaching its ceiling, or an error while starting), its step result
\* has nextAction = abort and the workflow ends with no select, code or verify
\* step executed and iterations = 0.
C11_InitFailureAborts ==
  (result.returned /\ ~steps[1].success)
    => /\ steps[1].nextAction = "abort"
       /\ Len(steps) = 1
       /\ result.iterations = 0

\* the select step ran on a backlog in which every feature passes, and the
\* feature list was read without error
SelectedNothing ==
  /\ result.returned
  /\ Len(steps) >= 2
  /\ steps[2].nextAction # "retry"
  /\ IncompleteAt(features) = {}

\* C12: when the feature backlog has no incomplete feature, the workflow ends
\* after the select step with nextAction = abort, runs no code or verify step,
\* and the outcome is a success-with-nothing-to-do that is not reported as an
\* error or as a failed workflow.
C12_NothingToDoIsNotFailure ==
  SelectedNothing
    => /\ steps[2].nextAction = "abort"
       /\ Len(steps) = 2
       /\ result.success
       /\ ctx.state # "failed"

\* C13: a workflow invocation whose verification passes updates the feature
\* backlog: when executeWorkflow returns a successful result, the selected
\* feature is recorded as passing (so it is not selected again).
C13_PassingVerificationRecorded ==
  (result.returned /\ result.success)
    => /\ \E i \in 1..Len(features) :
             features[i].id = result.featureId /\ features[i].passes
       /\ getNextIncompleteFeature(features) # result.featureId

\* C17: in every state reachable through the feature backlog operations, each
\* feature with passes = true has a completion timestamp and non-empty
\* verification notes, also after markFeatureComplete is called with an empty
\* list of verification steps.
C17_PassingHasStampAndNotes ==
  \A i \in 1..Len(features) :
     features[i].passes
       => /\ features[i].completedAt # NoTime
          /\ features[i].verificationNotes # NoNotes
          /\ features[i].verificationNotes # <<>>

MergedFields ==
  {"desired_state", "current_state", "note", "phase", "current_issue",
   "restart_count", "last_commit"}

\* C20: writeState with a partial update leaves every field that the update
\* does not supply (desired_state, current_state, note, phase, issue
\* reference, restart counter, last-commit reference) equal to its value in
\* the record readState returned; for a well-formed file that is the value
\* stored in the file.  Only the supplied fields and the setter change.
C20_PartialUpdateFrame ==
  [][smLast'.op = "write" =>
       \A f \in MergedFields :
          smLast'.updates[f] = Omitted
            => /\ stateFile'[f] = readState(stateFile)[f]
               /\ (/\ stateFile.status = "ok"
                   /\ stateFile.desired_state \in VALID_STATES
                   /\ stateFile.current_state \in VALID_STATES)
                    => stateFile'[f] = stateFile[f]]_vars

\* requestRunOnce was called on a file that held current_state continuous, a
\* phase and a restart counter, and they are still there
C20_Witness ==
  /\ smLast.op = "write"
  /\ smLast.updates = requestRunOnce
  /\ stateFile.desired_state = "run_once"
  /\ stateFile.current_state = "continuous"
  /\ stateFile.phase = "building"
  /\ stateFile.restart_count = "3"

(***************************************************************************)
(* The human backlog, stated from the stored list alone.                   *)
(***************************************************************************)
\* the smallest position in a non-empty set of positions
FirstOf(S) == CHOOSE i \in S : \A j \in S : i <= j

ItemsWhere(P(_)) == {i \in 1..Len(humanBacklog) : P(humanBacklog[i])}

\* the first priority level, in the order critical, high, medium, low, at
\* which P holds of some item
HighestLevel(P(_, _)) ==
  priorityOrder[FirstOf({k \in 1..Len(priorityOrder) :
                           \E i \in 1..Len(humanBacklog) :
                              P(humanBacklog[i], priorityOrder[k])})]

\* C14: getNextItem returns, short-circuiting at the first match: the first
\* item in file order with status in_progress; else the first file-order item
\* with status backlog at the highest priority level (critical, high, medium,
\* low) that has one; else the first not-completed item at the highest
\* priority level that has one, whatever its status; else the first
\* incomplete item in file order; and the result is non-null whenever any
\* incomplete item exists.
C14_NextItemPrecedence ==
  bmLast.op = "getNextItem" =>
    LET InProgress == ItemsWhere(LAMBDA x : x.status = "in_progress")
        IsBacklogAt(x, p) == x.status = "backlog" /\ x.priority = p
        IsOpenAt(x, p) == ~x.completed /\ x.priority = p
        Open == ItemsWhere(LAMBDA x : ~x.completed)
        expected ==
          IF InProgress # {} THEN FirstOf(InProgress)
          ELSE IF \E i \in 1..Len(humanBacklog) : humanBacklog[i].status = "backlog"
          THEN FirstOf(ItemsWhere(LAMBDA x : IsBacklogAt(x, HighestLevel(IsBacklogAt))))
          ELSE IF Open # {}
          THEN FirstOf(ItemsWhere(LAMBDA x : IsOpenAt(x, HighestLevel(IsOpenAt))))
          ELSE 0
    IN  /\ expected # 0 => bmLast.ret = humanBacklog[expected].id
        /\ Open # {} => bmLast.ret # Null

\* C15: after any sequence of addItem, markInProgress, markBlocked,
\* markComplete, updateStatus and addComment calls, every backlog item
\* satisfies completed = true if and only if status = done.
C15_CompletedIffDone ==
  \A i \in 1..Len(humanBacklog) :
     humanBacklog[i].completed <=> humanBacklog[i].status = "done"

\* C16: the human backlog pre-empts the feature backlog: whenever the human
\* backlog holds an incomplete item, the coordinator's next directive (the
\* tasks of createSessionTasks, the task named in the generated prompt) is
\* not drawn from the feature backlog.
C16_HumanBacklogPreempts ==
  [][(/\ coLast' # coLast \/ taskQueue' # taskQueue
      /\ \E i \in 1..Len(humanBacklog) : ~humanBacklog[i].completed)
     => /\ \A k \in 1..Len(coLast'.tasks) : coLast'.tasks[k].featureId = Null
        /\ coLast'.promptFeature = Null]_vars

\* C19: a session's status only moves one way along pending -> running ->
\* {completed, failed, timeout}: no session leaves a terminal status, none
\* returns from running to pending, and none reaches a terminal status
\* without having been running.
C19_StatusMovesOneWay ==
  [][\A i \in 1..Len(sessions) :
       /\ sessions[i].status \in EndStatuses
            => sessions'[i].status = sessions[i].status
       /\ sessions[i].status = "running" => sessions'[i].status # "pending"
       /\ sessions[i].status = "pending" => sessions'[i].status \notin EndStatuses]_vars

\* C21: after any sequence of writeState calls with arbitrary values for
\* desired_state and current_state, the persisted desired_state and
\* current_state are always among the five valid states: an unrecognized
\* value supplied for a field is discarded.
C21_PersistedStatesValid ==
  smLast.op = "write" =>
    /\ stateFile.desired_state \in VALID_STATES
    /\ stateFile.current_state \in VALID_STATES

(***************************************************************************)
(* The test phase, stated from the returned result alone.                  *)
(***************************************************************************)
CheckOf(phaseResult, type) ==
  CASE type = "lint" -> phaseResult.lint
    [] type = "build" -> phaseResult.build
    [] type = "browser" -> phaseResult.browserTests

CheckTypes == {"lint", "build", "browser"}

\* C22: executeTestPhase's allPassed is true exactly when the lint, build
\* and behavioral checks each have passed = true, a check reported as
\* skipped counting as passed, and failedTests lists exactly the checks whose
\* passed is false.
C22_AllPassedIsConjunction ==
  tpPc = "returned" =>
    /\ tpResult.allPassed <=>
         \A type \in CheckTypes :
            \/ CheckOf(tpResult, type).status = "skipped"
            \/ CheckOf(tpResult, type).status = "passed"
    /\ \A type \in CheckTypes :
          CheckOf(tpResult, type).passed <=>
             CheckOf(tpResult, type).status \in {"skipped", "passed"}
    /\ {tpResult.failedTests[k] : k \in 1..Len(tpResult.failedTests)}
         = {type \in CheckTypes : ~CheckOf(tpResult, type).passed}
    /\ Len(tpResult.failedTests)
         = Cardinality({type \in CheckTypes : ~CheckOf(tpResult, type).passed})

C22_Witness ==
  /\ tpPc = "returned"
  /\ tpResult.browserTests.status = "skipped"
  /\ tpResult.allPassed
  /\ tpResult.lint.status = "passed"

\* C23: each executeTestPhase call attempts each of the three checks exactly
\* once, never retrying one, and computes the aggregate only after all three
\* results have been collected: a failing lint or build check does not
\* prevent the later checks from being run and reported.
C23_EachCheckOnceThenAggregate ==
  /\ \A type \in CheckTypes : tpRuns[type] <= 1
  /\ tpPc \in {"aggregate", "returned"} =>
        \A type \in CheckTypes :
           /\ tpRuns[type] = 1
           /\ tpChecks[type].status # "pending"
  /\ tpPc = "returned" =>
        \A type \in CheckTypes : CheckOf(tpResult, type) = tpChecks[type]

C23_Witness ==
  /\ tpPc = "returned"
  /\ ~tpResult.lint.passed
  /\ ~tpResult.build.passed
  /\ tpResult.browserTests.status = "passed"
  /\ tpResult.failedTests = <<"lint", "build">>

(***************************************************************************)
(* The feature store, stated from the file and the calls' results.         *)
(***************************************************************************)
\* C24: for every persisted store, a reader that runs between a writer's
\* steps observes either the complete previous content or the complete new
\* content of the file, never a partially written one.
C24_ReadersSeeWholeFiles ==
  ~(fsLast.op \in {"next", "count", "get", "load", "mark"}
    /\ fsLast.outcome = "syntaxerror")

\* C25: every Feature Backlog mutation or query works on the persisted file
\* as it stands at that time: a count through any instance is the count of
\* the file, and a markFeatureComplete through any instance writes back
\* every completion the file held.
C25_CallsSeeTheFile ==
  [][/\ (fsLast'.op = "count" /\ fsLast'.outcome = "returned"
         /\ featureFile.status = "ok")
        => fsLast'.ret = getIncompleteFeatureCount(parseList(featureFile.content))
     /\ (fsLast'.op = "mark" /\ fsLast'.outcome = "writing"
         /\ featureFile.status = "ok")
        => \A i \in 1..Len(featureFile.content.features) :
              featureFile.content.features[i].passes
                => fsWriting'[fsLast'.by].features[i].passes]_vars

\* C26: with no feature file present, the read-only queries (next
\* incomplete feature, incomplete-feature count, lookup by id) return null,
\* 0 and null without failing, while markFeatureComplete fails with an
\* error and creates no file.
C26_MissingFileReadsAsEmpty ==
  featureFile.status = "missing" =>
    /\ fsLast.op \in {"next", "count", "get"}
         => fsLast.outcome = "returned" /\ fsLast.ret = Null
    /\ fsLast.op = "mark" => fsLast.outcome \notin {"returned", "writing"}

\* C28: saving a feature collection and then loading it back yields the
\* same feature records field for field in the same order, and after every
\* save the stored total and completed counts equal the number of records
\* and the number of records with passes = true.
C28_SaveThenLoad ==
  /\ [](featureFile.status = "ok" =>
          /\ featureFile.content.totalFeatures = Len(featureFile.content.features)
          /\ featureFile.content.completedFeatures =
               Cardinality({i \in 1..Len(featureFile.content.features) :
                              featureFile.content.features[i].passes}))
  /\ [][(/\ fsLast.op = "save" /\ fsLast.outcome = "returned"
         /\ fsLast'.op = "load" /\ fsLast'.outcome = "returned"
         /\ ~fmCache[fsLast'.by].loaded)
        => fmCache'[fsLast'.by].features = fmCache[fsLast.by].features]_vars


(***************************************************************************)
(* Mutations addressed to an id that names no record.                      *)
(***************************************************************************)
\* markFeatureComplete on an unknown feature id
UnknownFeatureRejected ==
  /\ (fmLast'.op = "mark" /\ fmLast' # fmLast /\ ~HasFeature(features, fmLast'.id))
       => fmLast'.outcome = "notfound" /\ features' = features /\ counts' = counts
  /\ (fsLast'.op = "mark" /\ fsLast' # fsLast /\ featureFile.status = "ok"
      /\ ~fmCache[fsLast'.by].loaded
      /\ ~HasFeature(parseList(featureFile.content), fsLast'.id))
       => fsLast'.outcome = "notfound" /\ featureFile' = featureFile

\* startSession and endSession on an unknown session id
UnknownSessionRejected ==
  (ssLast'.op \in {"startSession", "endSession"} /\ ssLast' # ssLast
   /\ ~HasSession(ssLast'.id))
    => ssLast'.outcome = "notfound" /\ sessions' = sessions

\* markTestPassing and markTestFailing on an unknown test id
UnknownTestRejected ==
  (tmLast'.op \in {"markPassing", "markFailing"} /\ tmLast' # tmLast
   /\ ~HasTest(loadSuite(testsFile), tmLast'.testId))
    => tmLast'.ret = FALSE /\ testsFile' = testsFile

\* C27: a mutation addressed to an id that names no record fails explicitly
\* and changes nothing persisted: markFeatureComplete, startSession and
\* endSession raise a not-found error, markTestPassing and markTestFailing
\* return false, and no record is created or modified.
C27_UnknownIdChangesNothing ==
  [][UnknownFeatureRejected /\ UnknownSessionRejected /\ UnknownTestRejected]_vars


(***************************************************************************)
(* The progress journal, read back.                                        *)
(***************************************************************************)
\* C29: recording an entry with recordProgress and then parsing the journal
\* with getCurrentProgress recovers the entry's tests passed and run counts
\* and its feature-completed flag: totalSessions grows by one, and
\* totalFeaturesCompleted grows by one exactly when the entry was recorded
\* with featureCompleted = true (entries recorded through completeSession
\* included).
C29_RecordedEntryReadsBack ==
  [][progressLog' # progressLog =>
       LET before == getCurrentProgress(progressLog)
           after == getCurrentProgress(progressLog')
           parsed == parseProgressEntries(progressLog')[Len(progressLog')]
       IN  /\ after.totalSessions = before.totalSessions + 1
           /\ parsed.testsRun = ptLast'.testsRun
           /\ parsed.testsPassed = ptLast'.testsPassed
           /\ parsed.featureCompleted = ptLast'.featureCompleted
           /\ after.totalFeaturesCompleted =
                before.totalFeaturesCompleted
                  + (IF ptLast'.featureCompleted = "true" THEN 1 ELSE 0)]_vars


(***************************************************************************)
(* The comment threads of the human backlog.                               *)
(***************************************************************************)
CommentsOf(backlog, id) == backlog[ItemPosition(backlog, id)].comments

\* the items other than id keep their comment lists
OthersKeepComments(id) ==
  \A i \in 1..Len(humanBacklog) :
     humanBacklog[i].id # id =>
        /\ HasItem(humanBacklog', humanBacklog[i].id)
        /\ CommentsOf(humanBacklog', humanBacklog[i].id) = humanBacklog[i].comments

C31_FailingClearsEvidence ==
  (tmLast.op = "markFailing" /\ tmLast.ret) =>
     LET test == testsFile.tests[TestPosition(testsFile, tmLast.testId)]
     IN  /\ ~test.passes
         /\ test.verified_at = Unset
         /\ test.screenshot_path = Unset
         /\ test.console_log_path = Unset


(***************************************************************************)
(* The agent state once terminated.                                        *)
(***************************************************************************)
\* C32: terminated is an absorbing agent state: once desired_state and
\* current_state are terminated, no later state operation (startContinuous,
\* requestRunOnce, requestCleanup, pause, updateCurrentState) moves either
\* field to another state.
C32_TerminatedIsAbsorbing ==
  [][(/\ stateFile.status = "ok"
      /\ stateFile.desired_state = "terminated"
      /\ stateFile.current_state = "terminated"
      /\ smLast'.op = "write"
      /\ smLast'.updates \in ConvenienceUpdates)
       => /\ stateFile'.desired_state = "terminated"
          /\ stateFile'.current_state = "terminated"]_vars


(***************************************************************************)
(* The result of a workflow that succeeded.                                *)
(***************************************************************************)
\* C33: when executeWorkflow succeeds, result.testResults is present and
\* holds the aggregate result (lint, build and browser check results) of
\* the verify step that passed.
C33_SuccessCarriesTestResults ==
  (result.returned /\ result.success) =>
     /\ result.testResults.present
     /\ result.testResults.value.allPassed
     /\ result.testResults.value.lint.passed
     /\ result.testResults.value.build.passed
     /\ result.testResults.value.browserTests.passed


(***************************************************************************)
(* Termination of executeWorkflow.                                         *)
(***************************************************************************)
\* C34: executeWorkflow always terminates: with every external invocation
\* returning a pass, fail or timeout outcome, every invocation eventually
\* returns a result, after at most 2 + 2 x cap step records (cap being the
\* context's maxIterations), whatever the sequence of check outcomes.
C34_WorkflowTerminates ==
  /\ [](Len(steps) <= 2 + 2 * ctx.maxIterations)
  /\ (pc \in {"step1", "step2", "step3", "step4"}) ~> (pc = "done" /\ result.returned)

\* an invocation that returned with the largest number of step records
C34_Witness ==
  /\ pc = "done"
  /\ result.returned
  /\ Len(steps) = 2 + 2 * ctx.maxIterations
  /\ steps[Len(steps)].step = 4


(***************************************************************************)
(* The order of the step records of one invocation.                        *)
(***************************************************************************)
\* C35: step records appear only in the order init, select, then repeated
\* code-then-verify pairs: select is never run unless init succeeded, a
\* code step is never run unless select succeeded and a feature is
\* selected, every verify step is immediately preceded by a code step of
\* the same iteration, and no step is run after a verify step that
\* succeeded.
C35_StepOrder ==
  /\ Len(steps) >= 1 => steps[1].step = 1
  /\ Len(steps) >= 2 => steps[1].success /\ steps[2].step = 2
  /\ Len(steps) >= 3 => steps[2].success /\ ctx.currentFeatureId # Null
  /\ \A i \in 3..Len(steps) :
        /\ steps[i].step = (IF i % 2 = 1 THEN 3 ELSE 4)
        /\ steps[i].step = 4 => steps[i - 1].step = 3 /\ steps[i - 1].success
        /\ steps[i].step = 3 => ctx.iterationCount >= (i - 1) \div 2
  /\ \A i \in 1..Len(steps) :
        (steps[i].step = 4 /\ steps[i].success) => i = Len(steps)

\* a second code-then-verify pair whose verify step succeeded
C35_Witness ==
  /\ Len(steps) = 6
  /\ ~steps[4].success
  /\ steps[6].success
  /\ pc = "done"


(***************************************************************************)
(* The project phase.                                                      *)
(***************************************************************************)
\* C36: determineProjectPhase returns initialization when the progress log
\* has no session entries (including before any feature list has been
\* created); otherwise completion when no feature is incomplete; otherwise
\* refinement when the current streak is 0 and more than 5 sessions are
\* logged; otherwise development.
C36_PhaseDecision ==
  coLast.op = "determineProjectPhase" =>
     LET progress == getCurrentProgress(progressLog)
     IN  IF progress.totalSessions = 0
         THEN coLast.outcome = "returned" /\ coLast.phase = "initialization"
         ELSE featureFile.status = "ok" =>
                /\ coLast.outcome = "returned"
                /\ coLast.phase =
                     (IF getIncompleteFeatureCount(parseList(featureFile.content)) = 0
                      THEN "completion"
                      ELSE IF progress.currentStreak = 0 /\ progress.totalSessions > 5
                      THEN "refinement"
                      ELSE "development")


(***************************************************************************)
(* The next agent in the development phase.                                *)
(***************************************************************************)
\* C37: in the development phase getNextAgentType alternates coding and
\* testing on the last session: it returns testing exactly when the most
\* recently logged session was a coding session that ran zero tests, and
\* coding otherwise, for a progress log of any length.
C37_AlternatesOnLastSession ==
  (/\ coLast.op = "createSessionTasks"
   /\ determineProjectPhase(progressLog, features) = "development")
    => LET entries == parseProgressEntries(progressLog)
           lastSession == entries[Len(entries)]
       IN  coLast.agentType =
             (IF lastSession.agentType = "coding" /\ lastSession.testsRun = 0
              THEN "testing" ELSE "coding")


(***************************************************************************)
(* completeSession and a feature completion that must be rejected.         *)
(***************************************************************************)
\* a result that claims a feature completed with a failed step, with no
\* step list, or for a feature id the list does not have
IsBadCompletion(sessionResult) ==
  /\ sessionResult.featureCompleted
  /\ sessionResult.featureId # Null
  /\ \/ ~sessionResult.hasSteps
     \/ ~everyStepPassed(sessionResult.verificationSteps)
     \/ ~HasFeature(features, sessionResult.featureId)

C39_QueriesLeaveLedgerAlone ==
  [][tmLast'.op \in LedgerQueries => testsFile' = testsFile]_vars

=============================================================================
